---- MODULE Spec2Model ----
(***************************************************************************)
(* Authorization and consistency layer of the edu-monitor backend: the     *)
(* Users, Classrooms and Grades services over their DynamoDB tables.       *)
(*                                                                         *)
(* A table is a function from primary key (id) to item; db.put upserts by  *)
(* id, db.scan returns the items that satisfy the filter in an order the   *)
(* store chooses.  Every handler is an async function: the store reads it  *)
(* awaits and the db.put it ends with are separate steps, so handlers of   *)
(* different sessions interleave between a read and the put.               *)
(*                                                                         *)
(* JavaScript values: an absent/undefined string is "", an absent id is 0  *)
(* (both falsy, as in the source's `x || y`), an absent object is the      *)
(* record `null`/`undefined`; an attribute set to undefined before db.put  *)
(* is not stored, so it is a field missing from the record.  Arrays are    *)
(* sequences; indexOf is 1-based here with 0 for "not found" (-1 in JS).   *)
(***************************************************************************)
EXTENDS Integers, Sequences, FiniteSets, TLC

\* ---------------------------------------------------------------- bounds
MaxUsers == 2          \* users signed up in the Users specification
MaxComponents == 1     \* grading components added in the Grades specification
MaxClassrooms == 2     \* classrooms created in the Create specification
MaxTasks == 1          \* tasks created in the Tasks specification
MaxInFlight == 2       \* handlers awaiting at the same time (Grades, Roles and Classrooms specifications)
MaxCreated == 1        \* items created in the Services specification

\* ---------------------------------------------------------------- inputs
Sessions == {"s1", "s2"}

STUDENT == "STUDENT"
EDUCATOR == "EDUCATOR"
GUARDIAN == "GUARDIAN"
ROLES == {STUDENT, EDUCATOR, GUARDIAN}

Emails == {"a@x", "A@x", "b@x"}
Passwords == {"pw1", "pw2"}
SignupFirstNames == {"Ann"}
UpdateFirstNames == {"", "Bob"}
LastNames == {"Lee"}

NoId == 0
NoStr == ""

null == [null |-> TRUE]
undefined == [undefined |-> TRUE]
Idle == [op |-> "idle"]
NoCall == [op |-> "none", status |-> "none", hash |-> FALSE]

VARIABLES
  users,        \* table Users: id -> item
  classrooms,   \* table Classrooms: id -> item
  components,   \* table Grades (grading components): id -> item
  tasks,        \* table Tasks: id -> item
  sessions,     \* session -> context.session.user (a user projection or undefined)
  pending,      \* session -> the handler that session is awaiting in, or Idle
  last,         \* the call that returned last: [op, status, hash]
  uuidCount,    \* number of uuid() values generated so far
  revoked       \* history: <<student, guardian>> links a completed removeGuardian
                \* took away and no later completed addGuardian gave back

vars == <<users, classrooms, components, tasks, sessions, pending, last, uuidCount, revoked>>

\* ---------------------------------------------------------------- helpers
Range(f) == {f[k] : k \in DOMAIN f}

\* db.put: upsert by primary key id
Put(table, item) ==
  [k \in DOMAIN table \cup {item.id} |-> IF k = item.id THEN item ELSE table[k]]

\* ProjectionExpression: the named attributes the item has
Project(item, fields) == [f \in (fields \cap DOMAIN item) |-> item[f]]

Has(item, f) == f \in DOMAIN item
With(item, f, v) == [k \in DOMAIN item \cup {f} |-> IF k = f THEN v ELSE item[k]]
Without(item, f) == [k \in DOMAIN item \ {f} |-> item[k]]

\* Array.prototype.indexOf, 1-based; 0 when absent
IndexOf(seq, x) ==
  IF \E i \in 1..Len(seq) : seq[i] = x
  THEN CHOOSE i \in 1..Len(seq) : seq[i] = x /\ \A j \in 1..(i - 1) : seq[j] # x
  ELSE 0

\* Array.prototype.splice(i, 1) for a 1-based index i inside the array
Splice(seq, i) == [j \in 1..(Len(seq) - 1) |-> IF j < i THEN seq[j] ELSE seq[j + 1]]

Elems(seq) == {seq[i] : i \in 1..Len(seq)}

\* String.prototype.toLowerCase on the e-mail alphabet
ToLowerCase(s) == IF s = "A@x" THEN "a@x" ELSE s

\* bcrypt.hash / bcrypt.compare: a one-way hash that compare inverts
BcryptHash(password) == <<"bcrypt", password>>
BcryptCompare(password, hash) == hash = BcryptHash(password)

Ok(v) == [ok |-> TRUE, value |-> v]
Err(kind) == [ok |-> FALSE, error |-> kind]

\* a handler returns (or throws) without having written anything
Status(result) == IF result.ok THEN "ok" ELSE result.error

\* whether the returned record carries a passwordHash (every returned value
\* is a record; an array is returned as [items |-> it])
CarriesHash(result) == result.ok /\ "passwordHash" \in DOMAIN result.value

Return(s, op, result) ==
  /\ last' = [op |-> op, status |-> Status(result), hash |-> CarriesHash(result)]
  /\ revoked' = IF result.ok /\ op = "removeGuardian"
                THEN revoked \cup {<<sessions[s].id, pending[s].item.id>>}
                ELSE IF result.ok /\ op = "addGuardian"
                THEN revoked \ {<<sessions[s].id, pending[s].item.id>>}
                ELSE revoked
  /\ pending' = [pending EXCEPT ![s] = Idle]

Throw(s, op, kind) ==
  /\ Return(s, op, Err(kind))
  /\ UNCHANGED <<users, classrooms, components, tasks, sessions, uuidCount>>

\* ---------------------------------------------------------------- Users
UserFields == {"id", "email", "firstName", "lastName", "role"}

\* UserService.lookup over a given content of the Users table: the possible
\* values of data.Items[0] || null (the scan's order is the store's choice)
Users_lookupIn(table, includeDependents, includePasswordHash, id, email) ==
  LET fields == UserFields
                \cup (IF includeDependents THEN {"dependents"} ELSE {})
                \cup (IF includePasswordHash THEN {"passwordHash"} ELSE {})
      idHit(u) == id # NoId /\ u.id = id
      emailHit(u) == email # NoStr /\ u.email = ToLowerCase(email)
      Items == {u \in Range(table) :
                  IF id # NoId /\ email # NoStr
                  THEN idHit(u) /\ emailHit(u)
                  ELSE idHit(u) \/ emailHit(u)}
  IN IF Items = {} THEN {null} ELSE {Project(u, fields) : u \in Items}

Users_lookup(includeDependents, includePasswordHash, id, email) ==
  Users_lookupIn(users, includeDependents, includePasswordHash, id, email)

\* UserService.me for an end-user context
Users_me(s, includeDependents, includePasswordHash) ==
  IF sessions[s] = undefined
  THEN {Err("Unauthenticated")}
  ELSE {Ok(u) : u \in Users_lookup(includeDependents, includePasswordHash, sessions[s].id, NoStr)}

me(s) ==
  /\ pending[s] = Idle
  /\ \E r \in Users_me(s, FALSE, FALSE) : Return(s, "me", r)
  /\ UNCHANGED <<users, classrooms, components, tasks, sessions, uuidCount>>

lookup(s, id, email) ==
  /\ pending[s] = Idle
  /\ IF id = NoId /\ email = NoStr
     THEN Return(s, "lookup", Err("ValidationError"))
     ELSE \E u \in Users_lookup(FALSE, FALSE, id, email) : Return(s, "lookup", Ok(u))
  /\ UNCHANGED <<users, classrooms, components, tasks, sessions, uuidCount>>

\* the db.put a Users handler ends with, then its session update and return
Users_put(s) ==
  /\ pending[s] # Idle
  /\ pending[s].table = "Users"
  /\ users' = Put(users, pending[s].item)
  /\ sessions' = IF pending[s].session = null
                 THEN sessions
                 ELSE [sessions EXCEPT ![s] = pending[s].session]
  /\ Return(s, pending[s].op, Ok(pending[s].ret))
  /\ UNCHANGED <<classrooms, components, tasks, uuidCount>>

Await(s, op, item, session, ret) ==
  /\ pending' = [pending EXCEPT ![s] =
                   [op |-> op, table |-> "Users", item |-> item, session |-> session, ret |-> ret]]
  /\ UNCHANGED <<users, classrooms, components, tasks, sessions, last, revoked>>

signup(s, email, firstName, lastName, role, password) ==
  /\ pending[s] = Idle
  /\ \E found \in Users_lookup(FALSE, FALSE, NoId, email) :
       IF found # null
       THEN Throw(s, "signup", "Conflict")
       ELSE /\ uuidCount < MaxUsers
            /\ LET base == [id |-> uuidCount + 1, email |-> ToLowerCase(email),
                            firstName |-> firstName, lastName |-> lastName, role |-> role]
                   user == IF role = GUARDIAN THEN With(base, "dependents", <<>>) ELSE base
               IN /\ Await(s, "signup", With(user, "passwordHash", BcryptHash(password)), user, user)
                  /\ uuidCount' = uuidCount + 1

\* login with the password test left out
Users_login_AnyPassword(email, password) ==
  {IF user = null THEN Err("NotFound")
   ELSE Ok(Without(user, "passwordHash"))
     : user \in Users_lookup(FALSE, TRUE, NoId, email)}

\* UserService.login: the possible outcomes (one per record the scan may
\* return first); bcrypt.compare rejects a hash that is not a string
Users_login(email, password) ==
  {IF user = null THEN Err("NotFound")
   ELSE IF ~Has(user, "passwordHash") THEN Err("TypeError")
   ELSE IF ~BcryptCompare(password, user.passwordHash) THEN Err("Unauthorized")
   ELSE Ok(Without(user, "passwordHash"))
     : user \in Users_lookup(FALSE, TRUE, NoId, email)}

login(s, email, password) ==
  /\ pending[s] = Idle
  /\ \E r \in Users_login(email, password) :
       IF ~r.ok
       THEN Throw(s, "login", r.error)
       ELSE /\ sessions' = [sessions EXCEPT ![s] = r.value]
            /\ Return(s, "login", r)
            /\ UNCHANGED <<users, classrooms, components, tasks, uuidCount>>

logout(s) ==
  /\ pending[s] = Idle
  /\ sessions[s] # undefined
  /\ sessions' = [sessions EXCEPT ![s] = undefined]
  /\ Return(s, "logout", Ok(undefined))
  /\ UNCHANGED <<users, classrooms, components, tasks, uuidCount>>

\* `x || y` on strings
OrElse(x, y) == IF x # NoStr THEN x ELSE y

\* updateProfile's merge with the dependents of a former guardian kept
updateProfile_user_KeepDependents(found, email, firstName, lastName, role) ==
  LET merged == [found EXCEPT !.email = OrElse(email, @),
                              !.firstName = OrElse(firstName, @),
                              !.lastName = OrElse(lastName, @),
                              !.role = OrElse(role, @)]
  IN IF merged.role = GUARDIAN /\ ~Has(merged, "dependents")
     THEN With(merged, "dependents", <<>>)
     ELSE merged

\* the item updateProfile puts: the supplied fields merged into the stored
\* record, dependents kept or created for a GUARDIAN and removed otherwise
updateProfile_user(found, email, firstName, lastName, role) ==
  LET merged == [found EXCEPT !.email = OrElse(email, @),
                              !.firstName = OrElse(firstName, @),
                              !.lastName = OrElse(lastName, @),
                              !.role = OrElse(role, @)]
  IN IF merged.role = GUARDIAN
     THEN (IF Has(merged, "dependents") THEN merged
           ELSE With(merged, "dependents", <<>>))
     ELSE Without(merged, "dependents")

updateProfile(s, email, firstName, lastName, role) ==
  /\ pending[s] = Idle
  /\ \E r \in Users_me(s, TRUE, TRUE) :
       IF ~r.ok
       THEN Throw(s, "updateProfile", r.error)
       ELSE IF r.value = null
       THEN Throw(s, "updateProfile", "TypeError")
       ELSE LET user == updateProfile_user(r.value, email, firstName, lastName, role)
                out == Without(Without(user, "passwordHash"), "dependents")
            IN /\ Await(s, "updateProfile", user, out, out)
               /\ UNCHANGED uuidCount

updatePassword(s, newPassword, oldPassword) ==
  /\ pending[s] = Idle
  /\ \E r \in Users_me(s, TRUE, TRUE) :
       IF ~r.ok
       THEN Throw(s, "updatePassword", r.error)
       ELSE IF r.value = null
       THEN Throw(s, "updatePassword", "TypeError")
       ELSE IF ~(Has(r.value, "passwordHash") /\ BcryptCompare(oldPassword, r.value.passwordHash))
       THEN Throw(s, "updatePassword", "Unauthorized")
       ELSE LET user == With(r.value, "passwordHash", BcryptHash(newPassword))
                out == Without(user, "passwordHash")
            IN /\ Await(s, "updatePassword", user, out, out)
               /\ UNCHANGED uuidCount

\* addGuardian's push without the indexOf test
addGuardian_dependents_AlwaysPush(dependents, id) == Append(dependents, id)

\* guardian.dependents after addGuardian / removeGuardian by the user `id`
addGuardian_dependents(dependents, id) ==
  IF IndexOf(dependents, id) = 0 THEN Append(dependents, id) ELSE dependents

removeGuardian_dependents(dependents, id) ==
  IF IndexOf(dependents, id) # 0 THEN Splice(dependents, IndexOf(dependents, id)) ELSE dependents

\* the record addGuardian / removeGuardian hand back to the caller
Guardian_returned(guardian) == Without(guardian, "dependents")

Guardian_update(s, op, email) ==
  /\ pending[s] = Idle
  /\ IF sessions[s] = undefined
     THEN Throw(s, op, "Unauthenticated")
     ELSE IF sessions[s].role # STUDENT
     THEN Throw(s, op, "Forbidden")
     ELSE \E guardian \in Users_lookup(TRUE, TRUE, NoId, email) :
            IF guardian = null
            THEN Throw(s, op, "NotFound")
            ELSE IF guardian.role # GUARDIAN
            THEN Throw(s, op, "Forbidden")
            ELSE IF ~Has(guardian, "dependents")
            THEN Throw(s, op, "TypeError")
            ELSE LET item == [guardian EXCEPT !.dependents =
                                 IF op = "addGuardian"
                                 THEN addGuardian_dependents(@, sessions[s].id)
                                 ELSE removeGuardian_dependents(@, sessions[s].id)]
                 IN /\ Await(s, op, item, null, Guardian_returned(item))
                    /\ UNCHANGED uuidCount

addGuardian(s, email) == Guardian_update(s, "addGuardian", email)

removeGuardian(s, email) == Guardian_update(s, "removeGuardian", email)

\* UserService.listGuardians: ids of the GUARDIAN users whose dependents contain studentId
Users_listGuardians(studentId) ==
  {u.id : u \in {g \in Range(users) :
                   /\ Has(g, "dependents")
                   /\ studentId \in Elems(g.dependents)
                   /\ g.role = GUARDIAN}}

\* UserService.listDependents for guardianId: guardian.dependents
Users_listDependents(guardianId) ==
  {IF g = null THEN Err("TypeError")
   ELSE IF Has(g, "dependents") THEN Ok([items |-> g.dependents]) ELSE Ok(undefined)
     : g \in Users_lookup(TRUE, FALSE, guardianId, NoStr)}

listGuardians(s) ==
  /\ pending[s] = Idle
  /\ IF sessions[s] = undefined
     THEN Return(s, "listGuardians", Err("Unauthenticated"))
     ELSE IF sessions[s].role # STUDENT
     THEN Return(s, "listGuardians", Err("Forbidden"))
     ELSE Return(s, "listGuardians", Ok([items |-> Users_listGuardians(sessions[s].id)]))
  /\ UNCHANGED <<users, classrooms, components, tasks, sessions, uuidCount>>

listDependents(s) ==
  /\ pending[s] = Idle
  /\ IF sessions[s] = undefined
     THEN Return(s, "listDependents", Err("Unauthenticated"))
     ELSE IF sessions[s].role # GUARDIAN
     THEN Return(s, "listDependents", Err("Forbidden"))
     ELSE \E r \in Users_listDependents(sessions[s].id) : Return(s, "listDependents", r)
  /\ UNCHANGED <<users, classrooms, components, tasks, sessions, uuidCount>>

\* ---------------------------------------------------------------- Users specification
Init ==
  /\ users = <<>>
  /\ classrooms = <<>>
  /\ components = <<>>
  /\ tasks = <<>>
  /\ sessions = [s \in Sessions |-> undefined]
  /\ pending = [s \in Sessions |-> Idle]
  /\ last = NoCall
  /\ uuidCount = 0
  /\ revoked = {}

\* inputs of the Users specification: students sign up, and updateProfile is
\* called with the e-mail as the only field supplied
SignupRoles == {STUDENT}
ProfileUpdates == {[email |-> e, firstName |-> NoStr, role |-> NoStr] : e \in Emails}

Next ==
  \/ \E s \in Sessions : me(s)
  \/ \E s \in Sessions, email \in Emails : lookup(s, NoId, email)
  \/ \E s \in Sessions, id \in 1..MaxUsers : lookup(s, id, NoStr)
  \/ \E s \in Sessions, email \in Emails, firstName \in SignupFirstNames, lastName \in LastNames,
        role \in SignupRoles, password \in Passwords :
       signup(s, email, firstName, lastName, role, password)
  \/ \E s \in Sessions, email \in Emails, password \in Passwords : login(s, email, password)
  \/ \E s \in Sessions : logout(s)
  \/ \E s \in Sessions, u \in ProfileUpdates :
       updateProfile(s, u.email, u.firstName, NoStr, u.role)
  \/ \E s \in Sessions : Users_put(s)

Spec == Init /\ [][Next]_vars

\* ---------------------------------------------------------------- Roles specification
\* Student 1 is logged in from two sessions; a third session signs a second
\* user up in any role.  The users change role and add each other as
\* guardians.
\* the handlers suspended at an await
InFlight == Cardinality({s \in DOMAIN pending : pending[s] # Idle})

RoleEmails == {"a@x", "b@x"}

RolesInit ==
  LET a == [id |-> 1, email |-> "a@x", firstName |-> "Ann", lastName |-> "Lee", role |-> STUDENT]
  IN /\ users = (1 :> With(a, "passwordHash", BcryptHash("pw1")))
     /\ classrooms = <<>>
     /\ components = <<>>
     /\ tasks = <<>>
     /\ sessions = [s \in {"a1", "a2", "b1"} |-> IF s = "b1" THEN undefined ELSE a]
     /\ pending = [s \in {"a1", "a2", "b1"} |-> Idle]
     /\ last = NoCall
     /\ uuidCount = 1
     /\ revoked = {}

RolesNext ==
  \/ \E role \in ROLES : InFlight < MaxInFlight /\ signup("b1", "b@x", "Ann", "Lee", role, "pw1")
  \/ \E s \in DOMAIN sessions, role \in ROLES :
       InFlight < MaxInFlight /\ updateProfile(s, NoStr, NoStr, NoStr, role)
  \/ \E s \in DOMAIN sessions, email \in RoleEmails :
       InFlight < MaxInFlight /\ addGuardian(s, email)
  \/ \E s \in DOMAIN sessions : Users_put(s)

SpecRoles == RolesInit /\ [][RolesNext]_vars

\* ---------------------------------------------------------------- Classrooms
\* ClassroomService.lookup: validate({ id }) then the item with that id, or null
Classrooms_lookup(id) ==
  IF id = NoId THEN Err("ValidationError")
  ELSE IF id \in DOMAIN classrooms THEN Ok(classrooms[id])
  ELSE Ok(null)

\* the subject of enroll / withdraw with the instructor test left out
Classrooms_subject_AnyEducator(user, classroom, email) ==
  IF user.role = EDUCATOR
  THEN IF email = NoStr THEN {Err("ValidationError")}
       ELSE {IF target = null THEN Err("NotFound")
             ELSE IF target.role # STUDENT THEN Err("Forbidden")
             ELSE Ok([id |-> target.id])
               : target \in Users_lookup(FALSE, FALSE, NoId, email)}
  ELSE IF user.role = STUDENT
  THEN {Ok([id |-> user.id])}
  ELSE {Err("Forbidden")}

\* the user id enroll / withdraw act on, or the error they throw
Classrooms_subject(user, classroom, email) ==
  IF user.role = EDUCATOR
  THEN IF classroom.instructor # user.id
       THEN {Err("Forbidden")}
       ELSE IF email = NoStr THEN {Err("ValidationError")}
       ELSE {IF target = null THEN Err("NotFound")
             ELSE IF target.role # STUDENT THEN Err("Forbidden")
             ELSE Ok([id |-> target.id])
               : target \in Users_lookup(FALSE, FALSE, NoId, email)}
  ELSE IF user.role = STUDENT
  THEN {Ok([id |-> user.id])}
  ELSE {Err("Forbidden")}

\* enroll's push without the indexOf test
enroll_students_AlwaysPush(students, userId) == Append(students, userId)

enroll_students(students, userId) ==
  IF IndexOf(students, userId) = 0 THEN Append(students, userId) ELSE students

\* withdraw that leaves the array as it is
withdraw_students_Keep(students, userId) == students

withdraw_students(students, userId) ==
  IF IndexOf(students, userId) # 0 THEN Splice(students, IndexOf(students, userId)) ELSE students

AwaitPut(s, op, table, item, ret) ==
  /\ pending' = [pending EXCEPT ![s] =
                   [op |-> op, table |-> table, item |-> item, session |-> null, ret |-> ret]]
  /\ UNCHANGED <<users, classrooms, components, tasks, sessions, last, uuidCount, revoked>>

Classrooms_update(s, op, id, email) ==
  /\ pending[s] = Idle
  /\ IF sessions[s] = undefined
     THEN Throw(s, op, "Unauthenticated")
     ELSE LET found == Classrooms_lookup(id)
          IN IF ~found.ok THEN Throw(s, op, found.error)
             ELSE IF found.value = null THEN Throw(s, op, "NotFound")
             ELSE \E subject \in Classrooms_subject(sessions[s], found.value, email) :
                    IF ~subject.ok THEN Throw(s, op, subject.error)
                    ELSE LET classroom == [found.value EXCEPT !.students =
                                               IF op = "enroll"
                                               THEN enroll_students(@, subject.value.id)
                                               ELSE withdraw_students(@, subject.value.id)]
                         IN AwaitPut(s, op, "Classrooms", classroom, classroom)

enroll(s, id, email) == Classrooms_update(s, "enroll", id, email)

withdraw(s, id, email) == Classrooms_update(s, "withdraw", id, email)

\* create's checks with the role test left out
Classrooms_create_check_AnyRole(user, title) ==
  IF user = undefined THEN "Unauthenticated"
  ELSE IF title = NoStr THEN "ValidationError"
  ELSE "ok"

\* ClassroomService.create: what is tested before the classroom is built
Classrooms_create_check(user, title) ==
  IF user = undefined THEN "Unauthenticated"
  ELSE IF user.role # EDUCATOR THEN "Forbidden"
  ELSE IF title = NoStr THEN "ValidationError"
  ELSE "ok"

create(s, title) ==
  /\ pending[s] = Idle
  /\ IF Classrooms_create_check(sessions[s], title) # "ok"
     THEN Throw(s, "create", Classrooms_create_check(sessions[s], title))
     ELSE LET classroom == [id |-> uuidCount + 1, title |-> title,
                            instructor |-> sessions[s].id, students |-> <<>>]
          IN /\ pending' = [pending EXCEPT ![s] =
                              [op |-> "create", table |-> "Classrooms",
                               item |-> classroom, session |-> null, ret |-> classroom]]
             /\ uuidCount' = uuidCount + 1
             /\ UNCHANGED <<users, classrooms, components, tasks, sessions, last, revoked>>

Classrooms_put(s) ==
  /\ pending[s] # Idle
  /\ pending[s].table = "Classrooms"
  /\ classrooms' = Put(classrooms, pending[s].item)
  /\ Return(s, pending[s].op, Ok(pending[s].ret))
  /\ UNCHANGED <<users, components, tasks, sessions, uuidCount>>

\* the scan `contains (students, :studentId)` over a content of the table
Classrooms_enrolledIn(table, studentId) ==
  {c \in Range(table) : studentId \in Elems(c.students)}

\* ClassroomService.listEnrolledClassrooms for an end-user context, given
\* the possible outcomes of its call client.Users.listDependents
Classrooms_listEnrolledClassroomsWith(user, studentId, dependents) ==
  IF user = undefined THEN {Err("Unauthenticated")}
  ELSE IF user.role = GUARDIAN
  THEN {IF ~d.ok THEN d
        ELSE IF studentId = NoId THEN Err("ValidationError")
        ELSE IF d.value = undefined THEN Err("TypeError")
        ELSE IF IndexOf(d.value.items, studentId) = 0 THEN Err("Forbidden")
        ELSE Ok([items |-> Classrooms_enrolledIn(classrooms, studentId)])
          : d \in dependents}
  ELSE IF user.role = STUDENT THEN {Ok([items |-> Classrooms_enrolledIn(classrooms, user.id)])}
  ELSE {Err("Forbidden")}

\* listEnrolledClassrooms with the Users service of src/unnamed/part_000
Classrooms_listEnrolledClassrooms(user, studentId) ==
  Classrooms_listEnrolledClassroomsWith(user, studentId,
    IF user = undefined THEN {} ELSE Users_listDependents(user.id))

listEnrolledClassrooms(s, studentId) ==
  /\ pending[s] = Idle
  /\ \E r \in Classrooms_listEnrolledClassrooms(sessions[s], studentId) :
       Return(s, "listEnrolledClassrooms", r)
  /\ UNCHANGED <<users, classrooms, components, tasks, sessions, uuidCount>>

\* a whole successful enroll / withdraw call of the logged-in user on
\* classroom id, run without interleaving: the subject it acted on and the
\* Classrooms table after it (no element when the call throws)
Classrooms_call(table, op, user, id, email) ==
  IF user = undefined \/ id \notin DOMAIN table THEN {}
  ELSE {[subject |-> subject.value.id,
         table |-> Put(table, [table[id] EXCEPT !.students =
                                 IF op = "enroll"
                                 THEN enroll_students(@, subject.value.id)
                                 ELSE withdraw_students(@, subject.value.id)])]
          : subject \in {x \in Classrooms_subject(user, table[id], email) : x.ok}}

\* ---------------------------------------------------------------- Grades
\* GradeService.lookupGradingComponent
Grades_lookupGradingComponent(table, componentId) ==
  IF componentId \in DOMAIN table THEN table[componentId] ELSE null

\* Array.prototype.find(grade => grade.student === studentId)
FindGrade(grades, studentId) ==
  IF \E i \in 1..Len(grades) : grades[i].student = studentId
  THEN grades[CHOOSE i \in 1..Len(grades) :
                /\ grades[i].student = studentId
                /\ \A j \in 1..(i - 1) : grades[j].student # studentId]
  ELSE undefined

\* JavaScript `x | null` for an object or undefined x: ToInt32(x) | 0 = 0
BitOrNull(x) == [number |-> 0]

addGradingComponent(s, classroomId, title, total, weight) ==
  /\ pending[s] = Idle
  /\ IF sessions[s] = undefined
     THEN Throw(s, "addGradingComponent", "Unauthenticated")
     ELSE IF sessions[s].role # EDUCATOR
     THEN Throw(s, "addGradingComponent", "Forbidden")
     ELSE LET found == Classrooms_lookup(classroomId)
          IN IF ~found.ok THEN Throw(s, "addGradingComponent", found.error)
             ELSE IF found.value = null THEN Throw(s, "addGradingComponent", "TypeError")
             ELSE IF found.value.instructor # sessions[s].id
             THEN Throw(s, "addGradingComponent", "Forbidden")
             ELSE LET component == [id |-> uuidCount + 1, title |-> title, total |-> total,
                                    weight |-> weight, classroom |-> classroomId, grades |-> <<>>]
                  IN /\ pending' = [pending EXCEPT ![s] =
                                      [op |-> "addGradingComponent", table |-> "Grades",
                                       item |-> component, session |-> null, ret |-> component]]
                     /\ uuidCount' = uuidCount + 1
                     /\ UNCHANGED <<users, classrooms, components, tasks, sessions, last, revoked>>

\* the db.put made conditional on the stored component still holding
\* nothing that the handler did not read
Grades_put_IfUnchanged(s) ==
  /\ pending[s] # Idle
  /\ pending[s].table = "Grades"
  /\ IF /\ pending[s].item.id \in DOMAIN components
        /\ \E g \in Elems(components[pending[s].item.id].grades) :
             g \notin Elems(pending[s].item.grades)
     THEN Throw(s, pending[s].op, "Conflict")
     ELSE /\ components' = Put(components, pending[s].item)
          /\ Return(s, pending[s].op, Ok(pending[s].ret))
          /\ UNCHANGED <<users, classrooms, tasks, sessions, uuidCount>>

\* the db.put followed by a validation that throws
Grades_put_ThenThrow(s) ==
  /\ pending[s] # Idle
  /\ pending[s].table = "Grades"
  /\ components' = Put(components, pending[s].item)
  /\ Return(s, pending[s].op, Err("ValidationError"))
  /\ UNCHANGED <<users, classrooms, tasks, sessions, uuidCount>>

\* the db.put / db.delete a Grades handler ends with, then its return
Grades_put(s) ==
  /\ pending[s] # Idle
  /\ pending[s].table = "Grades"
  /\ components' = IF pending[s].op = "removeGradingComponent"
                   THEN [k \in DOMAIN components \ {pending[s].item.id} |-> components[k]]
                   ELSE Put(components, pending[s].item)
  /\ Return(s, pending[s].op, Ok(pending[s].ret))
  /\ UNCHANGED <<users, classrooms, tasks, sessions, uuidCount>>

\* the role checks with the guardian's test left out
Grades_readAccess_AnyGuardian(user, classroom, studentId) ==
  IF user.role = EDUCATOR /\ classroom = null THEN "TypeError"
  ELSE IF user.role = EDUCATOR /\ classroom.instructor # user.id THEN "Forbidden"
  ELSE IF user.role = STUDENT /\ user.id # studentId THEN "Forbidden"
  ELSE "ok"

\* the role checks with the student's test comparing roles only
Grades_readAccess_AnyStudent(user, classroom, studentId) ==
  IF user.role = EDUCATOR /\ classroom = null THEN "TypeError"
  ELSE IF user.role = EDUCATOR /\ classroom.instructor # user.id THEN "Forbidden"
  ELSE IF user.role = GUARDIAN /\ user.id \notin Users_listGuardians(studentId) THEN "Forbidden"
  ELSE "ok"

\* the role-dependent checks lookupGrade and listGrades share
Grades_readAccess(user, classroom, studentId) ==
  IF user.role = EDUCATOR /\ classroom = null THEN "TypeError"
  ELSE IF user.role = EDUCATOR /\ classroom.instructor # user.id THEN "Forbidden"
  ELSE IF user.role = STUDENT /\ user.id # studentId THEN "Forbidden"
  ELSE IF user.role = GUARDIAN /\ user.id \notin Users_listGuardians(studentId) THEN "Forbidden"
  ELSE "ok"

\* GradeService.lookupGrade
Grades_lookupGrade(user, componentId, studentId) ==
  IF user = undefined THEN Err("Unauthenticated")
  ELSE LET component == Grades_lookupGradingComponent(components, componentId)
       IN IF component = null THEN Err("NotFound")
          ELSE LET found == Classrooms_lookup(component.classroom)
                   access == IF found.ok THEN Grades_readAccess(user, found.value, studentId)
                             ELSE found.error
               IN IF access # "ok" THEN Err(access)
                  ELSE Ok(BitOrNull(FindGrade(component.grades, studentId)))

lookupGrade(s, componentId, studentId) ==
  /\ pending[s] = Idle
  /\ Return(s, "lookupGrade", Grades_lookupGrade(sessions[s], componentId, studentId))
  /\ UNCHANGED <<users, classrooms, components, tasks, sessions, uuidCount>>

\* GradeService.listGrades over a given content of the Grades table
Grades_listGrades(table, user, classroomId, studentId) ==
  IF user = undefined THEN Err("Unauthenticated")
  ELSE LET found == Classrooms_lookup(classroomId)
           access == IF found.ok THEN Grades_readAccess(user, found.value, studentId)
                     ELSE found.error
           Items == {c \in Range(table) : c.classroom = classroomId}
       IN IF access # "ok" THEN Err(access)
          \* components.grades is undefined on the array: the map callback throws
          ELSE IF Items # {} THEN Err("TypeError")
          ELSE Ok([items |-> {}])

listGrades(s, classroomId, studentId) ==
  /\ pending[s] = Idle
  /\ Return(s, "listGrades", Grades_listGrades(components, sessions[s], classroomId, studentId))
  /\ UNCHANGED <<users, classrooms, components, tasks, sessions, uuidCount>>

\* postGrade's checks without the test for an entry already posted
postGrade_check_NoConflict(user, component, classroom, studentId) ==
  IF classroom = null THEN "TypeError"
  ELSE IF classroom.instructor # user.id THEN "Forbidden"
  ELSE IF IndexOf(classroom.students, studentId) = 0 THEN "Forbidden"
  ELSE "ok"

\* postGrade's checks once component and classroom are read (lines 231-239)
postGrade_check(user, component, classroom, studentId) ==
  IF classroom = null THEN "TypeError"
  ELSE IF classroom.instructor # user.id THEN "Forbidden"
  ELSE IF IndexOf(classroom.students, studentId) = 0 THEN "Forbidden"
  ELSE IF FindGrade(component.grades, studentId) # undefined THEN "Conflict"
  ELSE "ok"

\* postGrade up to `await this.lookupGradingComponent`
postGrade(s, componentId, studentId, score, comments) ==
  /\ pending[s] = Idle
  /\ IF sessions[s] = undefined
     THEN Throw(s, "postGrade", "Unauthenticated")
     ELSE IF sessions[s].role # EDUCATOR
     THEN Throw(s, "postGrade", "Forbidden")
     ELSE LET component == Grades_lookupGradingComponent(components, componentId)
          IN IF component = null
             THEN Throw(s, "postGrade", "NotFound")
             ELSE /\ pending' = [pending EXCEPT ![s] =
                                   [op |-> "postGrade", table |-> "none", component |-> component,
                                    grade |-> [student |-> studentId, score |-> score,
                                               comments |-> comments]]]
                  /\ UNCHANGED <<users, classrooms, components, tasks, sessions, last, uuidCount, revoked>>

\* postGrade from `await client.Classrooms.lookup` to the db.put it issues
postGrade_classroom(s) ==
  /\ pending[s] # Idle
  /\ pending[s].op = "postGrade"
  /\ pending[s].table = "none"
  /\ LET component == pending[s].component
         grade == pending[s].grade
         found == Classrooms_lookup(component.classroom)
         check == IF found.ok
                  THEN postGrade_check(sessions[s], component, found.value, grade.student)
                  ELSE found.error
     IN IF check # "ok"
        THEN Throw(s, "postGrade", check)
        ELSE AwaitPut(s, "postGrade", "Grades",
                      [component EXCEPT !.grades = Append(@, grade)], grade)

\* a number / a string argument that was not supplied (undefined), where
\* that differs from 0 and ''
NoNumber == -1
NotSupplied == "(undefined)"

\* JavaScript values of a field that may hold a number or a string
Num(n) == [number |-> n]
Str(x) == [string |-> x]

\* componentId.classroom: componentId is the id string, which has no such
\* property
Grades_componentId_classroom(componentId) == NoId

\* updateGradingComponent's merge (lines 133-135): total and weight take the
\* title when one is supplied
Grades_updateGradingComponent_component(component, title, total, weight) ==
  [component EXCEPT !.title = OrElse(title, @),
                    !.total = IF title # NoStr THEN Str(title) ELSE Num(@),
                    !.weight = IF title # NoStr THEN Str(title) ELSE Num(@)]

\* updateGradingComponent / removeGradingComponent up to
\* `await this.lookupGradingComponent`
Grades_component_begin(s, op, componentId, title, total, weight) ==
  /\ pending[s] = Idle
  /\ IF sessions[s] = undefined
     THEN Throw(s, op, "Unauthenticated")
     ELSE IF sessions[s].role # EDUCATOR
     THEN Throw(s, op, "Forbidden")
     ELSE IF componentId = NoId
     THEN Throw(s, op, "ValidationError")
     ELSE LET component == Grades_lookupGradingComponent(components, componentId)
          IN IF component = null
             THEN Throw(s, op, "NotFound")
             ELSE /\ pending' = [pending EXCEPT ![s] =
                                   [op |-> op, table |-> "none", component |-> component,
                                    title |-> title, total |-> total, weight |-> weight]]
                  /\ UNCHANGED <<users, classrooms, components, tasks, sessions, last,
                                 uuidCount, revoked>>

updateGradingComponent(s, componentId, title, total, weight) ==
  Grades_component_begin(s, "updateGradingComponent", componentId, title, total, weight)

removeGradingComponent(s, componentId) ==
  Grades_component_begin(s, "removeGradingComponent", componentId, NoStr, NoNumber, NoNumber)

\* both from `await client.Classrooms.lookup(componentId.classroom)` to the
\* db.put / db.delete they issue
Grades_component_classroom(s) ==
  /\ pending[s] # Idle
  /\ pending[s].op \in {"updateGradingComponent", "removeGradingComponent"}
  /\ pending[s].table = "none"
  /\ LET component == pending[s].component
         found == Classrooms_lookup(Grades_componentId_classroom(component.id))
     IN IF ~found.ok THEN Throw(s, pending[s].op, found.error)
        ELSE IF found.value = null THEN Throw(s, pending[s].op, "TypeError")
        ELSE IF found.value.instructor # sessions[s].id
        THEN Throw(s, pending[s].op, "Forbidden")
        ELSE IF pending[s].op = "removeGradingComponent"
        THEN AwaitPut(s, pending[s].op, "Grades", component, null)
        ELSE LET item == Grades_updateGradingComponent_component(
                           component, pending[s].title, pending[s].total, pending[s].weight)
             IN AwaitPut(s, pending[s].op, "Grades", item, item)

\* Array.prototype.findIndex(grade => grade.student === studentId), 1-based
FindIndex(grades, studentId) ==
  IF \E i \in 1..Len(grades) : grades[i].student = studentId
  THEN CHOOSE i \in 1..Len(grades) :
         /\ grades[i].student = studentId
         /\ \A j \in 1..(i - 1) : grades[j].student # studentId
  ELSE 0

\* updateGrade's assignment with the entry appended instead of overwritten
updateGrade_grades_Append(grades, i, score, comments) ==
  IF comments = NotSupplied THEN Err("TypeError")
  ELSE Ok([items |-> Append(grades,
             [grades[i] EXCEPT !.score = IF score # NoNumber THEN score ELSE @,
                               !.comments = IF comments # NoStr THEN comments ELSE @])])

\* updateGrade, lines 283-284: `comments.length` of comments not supplied
\* is a TypeError
updateGrade_grades(grades, i, score, comments) ==
  IF comments = NotSupplied THEN Err("TypeError")
  ELSE Ok([items |-> [grades EXCEPT ![i] =
             [@ EXCEPT !.score = IF score # NoNumber THEN score ELSE @,
                       !.comments = IF comments # NoStr THEN comments ELSE @]]])

\* updateGrade / removeGrade up to `await this.lookupGradingComponent`
Grades_grade_begin(s, op, componentId, studentId, score, comments) ==
  /\ pending[s] = Idle
  /\ IF sessions[s] = undefined
     THEN Throw(s, op, "Unauthenticated")
     ELSE IF sessions[s].role # EDUCATOR
     THEN Throw(s, op, "Forbidden")
     ELSE LET component == Grades_lookupGradingComponent(components, componentId)
          IN IF component = null
             THEN Throw(s, op, "NotFound")
             ELSE /\ pending' = [pending EXCEPT ![s] =
                                   [op |-> op, table |-> "none", component |-> component,
                                    grade |-> [student |-> studentId, score |-> score,
                                               comments |-> comments]]]
                  /\ UNCHANGED <<users, classrooms, components, tasks, sessions, last,
                                 uuidCount, revoked>>

updateGrade(s, componentId, studentId, score, comments) ==
  Grades_grade_begin(s, "updateGrade", componentId, studentId, score, comments)

removeGrade(s, componentId, studentId) ==
  Grades_grade_begin(s, "removeGrade", componentId, studentId, NoNumber, NotSupplied)

\* what updateGrade and removeGrade test on the classroom
Grades_grade_check(user, classroom, studentId) ==
  IF classroom = null THEN "TypeError"
  ELSE IF classroom.instructor # user.id THEN "Forbidden"
  ELSE IF IndexOf(classroom.students, studentId) = 0 THEN "Forbidden"
  ELSE "ok"

\* updateGrade from `await client.Classrooms.lookup` to its db.put
updateGrade_classroom(s) ==
  /\ pending[s] # Idle
  /\ pending[s].op = "updateGrade"
  /\ pending[s].table = "none"
  /\ LET component == pending[s].component
         grade == pending[s].grade
         found == Classrooms_lookup(component.classroom)
         check == IF found.ok
                  THEN Grades_grade_check(sessions[s], found.value, grade.student)
                  ELSE found.error
         i == FindIndex(component.grades, grade.student)
     IN IF check # "ok" THEN Throw(s, "updateGrade", check)
        ELSE IF i = 0 THEN Throw(s, "updateGrade", "NotFound")
        ELSE LET grades == updateGrade_grades(component.grades, i, grade.score, grade.comments)
             IN IF ~grades.ok THEN Throw(s, "updateGrade", grades.error)
                ELSE AwaitPut(s, "updateGrade", "Grades",
                              [component EXCEPT !.grades = grades.value.items],
                              grades.value.items[i])

\* removeGrade from `await client.Classrooms.lookup` on: line 316 reads the
\* identifiers score and comments, which removeGrade does not declare, so
\* the call ends there with a ReferenceError and lines 318-330 never run
removeGrade_classroom(s) ==
  /\ pending[s] # Idle
  /\ pending[s].op = "removeGrade"
  /\ pending[s].table = "none"
  /\ LET component == pending[s].component
         grade == pending[s].grade
         found == Classrooms_lookup(component.classroom)
         check == IF found.ok
                  THEN Grades_grade_check(sessions[s], found.value, grade.student)
                  ELSE found.error
     IN IF check # "ok" THEN Throw(s, "removeGrade", check)
        ELSE Throw(s, "removeGrade", "ReferenceError")

\* ---------------------------------------------------------------- Grades specification
\* The users of the Grades specification, as six signups leave them: two
\* educators, two students, two guardians; student 3 has added guardian 5.
GradeUsers ==
  LET user(id, email, role) ==
        [id |-> id, email |-> email, firstName |-> "Ann", lastName |-> "Lee", role |-> role,
         passwordHash |-> BcryptHash("pw1")]
  IN <<user(1, "e1@x", EDUCATOR), user(2, "e2@x", EDUCATOR),
       user(3, "st1@x", STUDENT), user(4, "st2@x", STUDENT),
       With(user(5, "g1@x", GUARDIAN), "dependents", <<3>>),
       With(user(6, "g2@x", GUARDIAN), "dependents", <<>>)>>

\* one logged-in session per user (session.user as login leaves it)
GradeSessions ==
  [s \in {"e1", "e2", "st1", "st2", "g1", "g2"} |->
     Project(GradeUsers[CASE s = "e1" -> 1 [] s = "e2" -> 2 [] s = "st1" -> 3
                          [] s = "st2" -> 4 [] s = "g1" -> 5 [] s = "g2" -> 6], UserFields)]

Algebra == [id |-> 7, title |-> "Algebra", instructor |-> 1, students |-> <<>>]

Students == {3, 4}
Scores == {85, 90}
Comments == {"good"}
EnrollEmails == {NoStr, "st1@x"}

GradesInit ==
  /\ users = GradeUsers
  /\ classrooms = (7 :> Algebra)
  /\ components = <<>>
  /\ tasks = <<>>
  /\ sessions = GradeSessions
  /\ pending = [s \in DOMAIN GradeSessions |-> Idle]
  /\ last = NoCall
  /\ uuidCount = 7
  /\ revoked = {}

GradesNext ==
  \/ \E s \in DOMAIN sessions, email \in EnrollEmails :
       InFlight < MaxInFlight /\ enroll(s, 7, email)
  \/ \E s \in DOMAIN sessions, email \in EnrollEmails :
       InFlight < MaxInFlight /\ withdraw(s, 7, email)
  \/ \E s \in DOMAIN sessions :
       /\ InFlight < MaxInFlight
       /\ uuidCount < 7 + MaxComponents
       /\ addGradingComponent(s, 7, "Quiz", 100, 1)
  \/ \E s \in DOMAIN sessions, c \in DOMAIN components, st \in Students,
        score \in Scores, comments \in Comments :
       InFlight < MaxInFlight /\ postGrade(s, c, st, score, comments)
  \/ \E s \in DOMAIN sessions : postGrade_classroom(s)
  \/ \E s \in DOMAIN sessions : Grades_put(s)
  \/ \E s \in DOMAIN sessions : Classrooms_put(s)
  \/ \E s \in DOMAIN sessions, c \in DOMAIN components, st \in Students : lookupGrade(s, c, st)
  \/ \E s \in DOMAIN sessions, st \in Students : listGrades(s, 7, st)

SpecGrades == GradesInit /\ [][GradesNext]_vars

\* ---------------------------------------------------------------- Guardians specification
\* The Grades users once both students are enrolled in Algebra and the
\* instructor has posted student 3's grade in the component Quiz.
Quiz ==
  [id |-> 8, title |-> "Quiz", total |-> 100, weight |-> 1, classroom |-> 7,
   grades |-> <<[student |-> 3, score |-> 85, comments |-> "good"]>>]

GuardianEmails == {"g1@x", "st2@x"}

GuardiansInit ==
  /\ users = GradeUsers
  /\ classrooms = (7 :> [Algebra EXCEPT !.students = <<3, 4>>])
  /\ components = (8 :> Quiz)
  /\ tasks = <<>>
  /\ sessions = GradeSessions
  /\ pending = [s \in DOMAIN GradeSessions |-> Idle]
  /\ last = NoCall
  /\ uuidCount = 8
  /\ revoked = {}

GuardiansNext ==
  \/ \E s \in DOMAIN sessions, email \in GuardianEmails : addGuardian(s, email)
  \/ \E s \in DOMAIN sessions, email \in GuardianEmails : removeGuardian(s, email)
  \/ \E s \in DOMAIN sessions : Users_put(s)
  \/ \E s \in DOMAIN sessions : listGuardians(s)
  \/ \E s \in DOMAIN sessions : listDependents(s)
  \/ \E s \in DOMAIN sessions, st \in Students : lookupGrade(s, 8, st)
  \/ \E s \in DOMAIN sessions, st \in Students : listGrades(s, 7, st)
  \/ \E s \in DOMAIN sessions, st \in Students : listEnrolledClassrooms(s, st)

SpecGuardians == GuardiansInit /\ [][GuardiansNext]_vars

\* ---------------------------------------------------------------- Classrooms specification
\* The Grades users with two classrooms, Algebra of educator 1 and Biology
\* of educator 2; e-mails of a student, of a guardian and of nobody.
Biology == [id |-> 9, title |-> "Biology", instructor |-> 2, students |-> <<>>]

ClassroomEmails == {NoStr, "st1@x", "g1@x", "zz@x"}

ClassroomsInit ==
  /\ users = GradeUsers
  /\ classrooms = (7 :> Algebra @@ 9 :> Biology)
  /\ components = <<>>
  /\ tasks = <<>>
  /\ sessions = GradeSessions
  /\ pending = [s \in DOMAIN GradeSessions |-> Idle]
  /\ last = NoCall
  /\ uuidCount = 9
  /\ revoked = {}

ClassroomsNext ==
  \/ \E s \in DOMAIN sessions, id \in DOMAIN classrooms, email \in ClassroomEmails :
       InFlight < MaxInFlight /\ enroll(s, id, email)
  \/ \E s \in DOMAIN sessions, id \in DOMAIN classrooms, email \in ClassroomEmails :
       InFlight < MaxInFlight /\ withdraw(s, id, email)
  \/ \E s \in DOMAIN sessions : Classrooms_put(s)
  \/ \E s \in DOMAIN sessions, st \in Students : listEnrolledClassrooms(s, st)

SpecClassrooms == ClassroomsInit /\ [][ClassroomsNext]_vars

\* ---------------------------------------------------------------- Create specification
\* Classrooms created by the logged-in users, with enroll / withdraw on them
Titles == {NoStr, "Algebra"}

CreateInit ==
  /\ users = GradeUsers
  /\ classrooms = <<>>
  /\ components = <<>>
  /\ tasks = <<>>
  /\ sessions = [GradeSessions EXCEPT !["g2"] = undefined]
  /\ pending = [s \in DOMAIN GradeSessions |-> Idle]
  /\ last = NoCall
  /\ uuidCount = 6
  /\ revoked = {}

CreateNext ==
  \/ \E s \in DOMAIN sessions, title \in Titles :
       /\ InFlight < MaxInFlight
       /\ uuidCount < 6 + MaxClassrooms
       /\ create(s, title)
  \/ \E s \in DOMAIN sessions, id \in DOMAIN classrooms, email \in EnrollEmails :
       InFlight < MaxInFlight /\ enroll(s, id, email)
  \/ \E s \in DOMAIN sessions, id \in DOMAIN classrooms, email \in EnrollEmails :
       InFlight < MaxInFlight /\ withdraw(s, id, email)
  \/ \E s \in DOMAIN sessions : Classrooms_put(s)

SpecCreate == CreateInit /\ [][CreateNext]_vars

\* ---------------------------------------------------------------- Tasks
\* A task's student is a user id, or null (NoId) for a task of the whole
\* class.  The errors thrown as 'Unauthorized' are failed ownership checks
\* and are reported as Forbidden.
TaskFields == {"id", "title", "classroom", "deadline", "student", "completedStudents"}

\* TaskService.lookup after its session check: data.Items[0] || null
Tasks_lookup(id) ==
  IF id \in DOMAIN tasks THEN Project(tasks[id], TaskFields) ELSE null

\* TaskService.create: the student the new task is scoped to, or the error
Tasks_create_student(user, theClassroom) ==
  IF user.role = STUDENT THEN Ok([id |-> user.id])
  ELSE IF user.role = EDUCATOR
  THEN IF theClassroom.instructor # user.id THEN Err("Forbidden") ELSE Ok([id |-> NoId])
  ELSE Err("Forbidden")

Tasks_create(s, title, deadline, classroom) ==
  /\ pending[s] = Idle
  /\ IF sessions[s] = undefined
     THEN Throw(s, "Tasks.create", "Unauthenticated")
     ELSE LET found == Classrooms_lookup(classroom)
          IN IF ~found.ok THEN Throw(s, "Tasks.create", found.error)
             ELSE IF found.value = null THEN Throw(s, "Tasks.create", "NotFound")
             ELSE LET student == Tasks_create_student(sessions[s], found.value)
                  IN IF ~student.ok THEN Throw(s, "Tasks.create", student.error)
                     ELSE IF title = NoStr \/ deadline = NoStr
                     THEN Throw(s, "Tasks.create", "ValidationError")
                     ELSE LET task == [id |-> uuidCount + 1, title |-> title,
                                       classroom |-> classroom, deadline |-> deadline,
                                       student |-> student.value.id,
                                       completedStudents |-> <<>>]
                          IN /\ pending' = [pending EXCEPT ![s] =
                                              [op |-> "Tasks.create", table |-> "Tasks",
                                               item |-> task, session |-> null, ret |-> task]]
                             /\ uuidCount' = uuidCount + 1
                             /\ UNCHANGED <<users, classrooms, components, tasks, sessions,
                                            last, revoked>>

\* the ownership checks of update and delete with both tests left out
Tasks_owner_check_Anyone(user, task, theClassroom) == "ok"

\* TaskService.update / delete: the two ownership checks
Tasks_owner_check(user, task, theClassroom) ==
  IF task.student # NoId /\ task.student # user.id THEN "Forbidden"
  ELSE IF task.student = NoId /\ theClassroom.instructor # user.id THEN "Forbidden"
  ELSE "ok"

\* the task and its classroom as update and delete read them, or the error
Tasks_owned(s, id) ==
  IF sessions[s] = undefined THEN Err("Unauthenticated")
  ELSE IF Tasks_lookup(id) = null THEN Err("NotFound")
  ELSE LET task == Tasks_lookup(id)
           found == Classrooms_lookup(task.classroom)
       IN IF ~found.ok THEN found
          ELSE IF found.value = null THEN Err("NotFound")
          ELSE IF Tasks_owner_check(sessions[s], task, found.value) # "ok"
          THEN Err(Tasks_owner_check(sessions[s], task, found.value))
          ELSE Ok(task)

\* task.title = title || task.title; task.deadline = deadline || task.deadline
Tasks_update_task(task, title, deadline) ==
  [task EXCEPT !.title = OrElse(title, @), !.deadline = OrElse(deadline, @)]

Tasks_update(s, id, title, deadline) ==
  /\ pending[s] = Idle
  /\ LET owned == Tasks_owned(s, id)
     IN IF ~owned.ok THEN Throw(s, "Tasks.update", owned.error)
        ELSE LET task == Tasks_update_task(owned.value, title, deadline)
             IN AwaitPut(s, "Tasks.update", "Tasks", task, task)

\* delete up to its db.delete
Tasks_delete(s, id) ==
  /\ pending[s] = Idle
  /\ LET owned == Tasks_owned(s, id)
     IN IF ~owned.ok THEN Throw(s, "Tasks.delete", owned.error)
        ELSE AwaitPut(s, "Tasks.delete", "Tasks", owned.value, null)

\* updateCompleteness' change with the indexOf tests left out
Tasks_completedStudents_NoTest(completedStudents, userId, completed) ==
  IF completed THEN Append(completedStudents, userId)
  ELSE IF completedStudents = <<>> THEN completedStudents
  ELSE SubSeq(completedStudents, 1, Len(completedStudents) - 1)

\* TaskService.updateCompleteness: push unless present / splice if present
Tasks_completedStudents(completedStudents, userId, completed) ==
  IF completed
  THEN IF IndexOf(completedStudents, userId) = 0
       THEN Append(completedStudents, userId) ELSE completedStudents
  ELSE IF IndexOf(completedStudents, userId) # 0
       THEN Splice(completedStudents, IndexOf(completedStudents, userId))
       ELSE completedStudents

\* updateCompleteness over a lookup without the session check: reading
\* the role of a session without a user is a TypeError
Tasks_updateCompleteness_NoSessionCheck(user, id, completed) ==
  IF Tasks_lookup(id) = null THEN Err("NotFound")
  ELSE IF user = undefined THEN Err("TypeError")
  ELSE IF user.role # STUDENT THEN Err("Forbidden")
  ELSE Ok([Tasks_lookup(id) EXCEPT !.completedStudents =
             Tasks_completedStudents(@, user.id, completed)])

\* TaskService.updateCompleteness: the task it puts, or the error
Tasks_updateCompleteness(user, id, completed) ==
  IF user = undefined THEN Err("Unauthenticated")
  ELSE IF Tasks_lookup(id) = null THEN Err("NotFound")
  ELSE IF user.role # STUDENT THEN Err("Forbidden")
  ELSE Ok([Tasks_lookup(id) EXCEPT !.completedStudents =
             Tasks_completedStudents(@, user.id, completed)])

updateCompleteness(s, id, completed) ==
  /\ pending[s] = Idle
  /\ LET task == Tasks_updateCompleteness(sessions[s], id, completed)
     IN IF ~task.ok THEN Throw(s, "updateCompleteness", task.error)
        ELSE AwaitPut(s, "updateCompleteness", "Tasks", task.value, task.value)

\* db.put of create, update and updateCompleteness
Tasks_put(s) ==
  /\ pending[s] # Idle
  /\ pending[s].table = "Tasks"
  /\ pending[s].op # "Tasks.delete"
  /\ tasks' = Put(tasks, pending[s].item)
  /\ Return(s, pending[s].op, Ok(pending[s].ret))
  /\ UNCHANGED <<users, classrooms, components, sessions, uuidCount>>

\* delete that returns without removing the item
Tasks_dbDelete_Keep(s) ==
  /\ pending[s] # Idle
  /\ pending[s].table = "Tasks"
  /\ pending[s].op = "Tasks.delete"
  /\ Return(s, pending[s].op, Ok(pending[s].ret))
  /\ UNCHANGED <<users, classrooms, components, tasks, sessions, uuidCount>>

\* db.delete of delete, by the key id
Tasks_dbDelete(s) ==
  /\ pending[s] # Idle
  /\ pending[s].table = "Tasks"
  /\ pending[s].op = "Tasks.delete"
  /\ tasks' = [k \in DOMAIN tasks \ {pending[s].item.id} |-> tasks[k]]
  /\ Return(s, pending[s].op, Ok(pending[s].ret))
  /\ UNCHANGED <<users, classrooms, components, sessions, uuidCount>>

\* ClassroomService.listInstructingClassrooms for a call of another service
Classrooms_listInstructingClassrooms(instructorId) ==
  {c \in Range(classrooms) : c.instructor = instructorId}

\* list's final filter with the test on task.student left out
Tasks_list_filter_All(items, studentId) == items

\* data.Items.filter(task => task.student === null || task.student === studentId)
Tasks_list_filter(items, studentId) ==
  {task \in items : task.student = NoId \/ task.student = studentId}

\* the scan of TaskService.list: '#student = :student' when studentId is
\* given, OR '#classroom IN (...)' when there are classrooms
Tasks_list_scan(studentId, ids) ==
  {Project(task, TaskFields) : task \in
     {x \in Range(tasks) : \/ studentId # NoId /\ x.student = studentId
                           \/ ids # {} /\ x.classroom \in ids}}

\* TaskService.list; the store rejects the scan of listEnrolledClassrooms
\* when no studentId is bound, and a scan without a filter expression
Tasks_list(user, studentId) ==
  IF user = undefined THEN Err("Unauthenticated")
  ELSE LET subject == IF user.role = STUDENT THEN user.id ELSE studentId
       IN IF subject = NoId THEN Err("ValidationError")
          ELSE IF user.role = EDUCATOR
          THEN LET ids == {c.id : c \in Classrooms_listInstructingClassrooms(user.id)}
               IN Ok([items |-> IF ids = {} THEN {}
                                ELSE Tasks_list_filter(Tasks_list_scan(NoId, ids), NoId)])
          ELSE LET ids == {c.id : c \in Classrooms_enrolledIn(classrooms, subject)}
               IN Ok([items |-> Tasks_list_filter(Tasks_list_scan(subject, ids), subject)])

\* TaskService.list of src/tasks/listStudentTasks.js: always for the caller
ListStudentTasks_list(user) ==
  IF user = undefined THEN Err("Unauthenticated")
  ELSE LET ids == {c.id : c \in Classrooms_enrolledIn(classrooms, user.id)}
       IN Ok([items |-> Tasks_list_filter(Tasks_list_scan(user.id, ids), user.id)])

list(s, studentId) ==
  /\ pending[s] = Idle
  /\ Return(s, "Tasks.list", Tasks_list(sessions[s], studentId))
  /\ UNCHANGED <<users, classrooms, components, tasks, sessions, uuidCount>>

\* ---------------------------------------------------------------- Tasks specification
\* Algebra with student 3 enrolled, Biology without students
TaskTitles == {NoStr, "essay"}
Deadlines == {"2021-04-01"}

TasksInit ==
  /\ users = GradeUsers
  /\ classrooms = (7 :> [Algebra EXCEPT !.students = <<3>>] @@ 9 :> Biology)
  /\ components = <<>>
  /\ tasks = <<>>
  /\ sessions = [GradeSessions EXCEPT !["g2"] = undefined]
  /\ pending = [s \in DOMAIN GradeSessions |-> Idle]
  /\ last = NoCall
  /\ uuidCount = 9
  /\ revoked = {}

TasksNext ==
  \/ \E s \in DOMAIN sessions, title \in {"quiz"}, deadline \in Deadlines,
        classroom \in DOMAIN classrooms \cup {NoId} :
       /\ InFlight < MaxInFlight
       /\ uuidCount < 9 + MaxTasks
       /\ Tasks_create(s, title, deadline, classroom)
  \/ \E s \in DOMAIN sessions, id \in DOMAIN tasks, title \in TaskTitles :
       InFlight < MaxInFlight /\ Tasks_update(s, id, title, NoStr)
  \/ \E s \in DOMAIN sessions, id \in DOMAIN tasks :
       InFlight < MaxInFlight /\ Tasks_delete(s, id)
  \/ \E s \in DOMAIN sessions, id \in DOMAIN tasks, completed \in BOOLEAN :
       InFlight < MaxInFlight /\ updateCompleteness(s, id, completed)
  \/ \E s \in DOMAIN sessions : Tasks_put(s)
  \/ \E s \in DOMAIN sessions : Tasks_dbDelete(s)
  \/ \E s \in DOMAIN sessions, st \in Students \cup {NoId} : list(s, st)

SpecTasks == TasksInit /\ [][TasksNext]_vars

\* ---------------------------------------------------------------- Components specification
\* The instructor of Algebra works from two sessions; both students are
\* enrolled; one session is logged out.
ComponentSessions ==
  [s \in {"e1", "e1b", "e2", "st1", "out"} |->
     IF s = "out" THEN undefined
     ELSE Project(GradeUsers[CASE s = "e1" -> 1 [] s = "e1b" -> 1 [] s = "e2" -> 2
                               [] s = "st1" -> 3], UserFields)]

\* the fields supplied to updateGradingComponent (title, total) and to
\* updateGrade (score, comments)
ComponentUpdates == {<<"Midterm", NoNumber>>, <<NoStr, 50>>}
GradeUpdates == {<<90, NotSupplied>>, <<NoNumber, "fair">>}

ComponentsInit ==
  /\ users = GradeUsers
  /\ classrooms = (7 :> [Algebra EXCEPT !.students = <<3, 4>>])
  /\ components = <<>>
  /\ tasks = <<>>
  /\ sessions = ComponentSessions
  /\ pending = [s \in DOMAIN ComponentSessions |-> Idle]
  /\ last = NoCall
  /\ uuidCount = 7
  /\ revoked = {}

ComponentsNext ==
  \/ \E s \in DOMAIN sessions :
       /\ InFlight < MaxInFlight
       /\ uuidCount < 7 + MaxComponents
       /\ addGradingComponent(s, 7, "Quiz", 100, 1)
  \/ \E s \in DOMAIN sessions, c \in DOMAIN components, u \in ComponentUpdates :
       InFlight < MaxInFlight /\ updateGradingComponent(s, c, u[1], u[2], NoNumber)
  \/ \E s \in DOMAIN sessions, c \in DOMAIN components :
       InFlight < MaxInFlight /\ removeGradingComponent(s, c)
  \/ \E s \in DOMAIN sessions : Grades_component_classroom(s)
  \/ \E s \in DOMAIN sessions, c \in DOMAIN components, st \in Students :
       InFlight < MaxInFlight /\ postGrade(s, c, st, 85, "good")
  \/ \E s \in DOMAIN sessions : postGrade_classroom(s)
  \/ \E s \in DOMAIN sessions, c \in DOMAIN components, u \in GradeUpdates :
       InFlight < MaxInFlight /\ updateGrade(s, c, 3, u[1], u[2])
  \/ \E s \in DOMAIN sessions : updateGrade_classroom(s)
  \/ \E s \in DOMAIN sessions, c \in DOMAIN components :
       InFlight < MaxInFlight /\ removeGrade(s, c, 3)
  \/ \E s \in DOMAIN sessions : removeGrade_classroom(s)
  \/ \E s \in DOMAIN sessions : Grades_put(s)

SpecComponents == ComponentsInit /\ [][ComponentsNext]_vars

\* ---------------------------------------------------------------- Users, src/users/index.js
\* The UserService of src/users/index.js differs from the one above in
\* addGuardian / removeGuardian: the guardian is looked up without its
\* passwordHash, and removeGuardian splices at indexOf's result unguarded.

\* Array.prototype.splice(indexOf(id), 1): index -1 counts from the end
UsersIndex_removeGuardian_dependents(dependents, id) ==
  IF IndexOf(dependents, id) # 0 THEN Splice(dependents, IndexOf(dependents, id))
  ELSE IF dependents = <<>> THEN dependents
  ELSE SubSeq(dependents, 1, Len(dependents) - 1)

UsersIndex_Guardian_update(s, op, email) ==
  /\ pending[s] = Idle
  /\ IF sessions[s] = undefined
     THEN Throw(s, op, "Unauthenticated")
     ELSE IF sessions[s].role # STUDENT
     THEN Throw(s, op, "Forbidden")
     ELSE \E guardian \in Users_lookup(TRUE, FALSE, NoId, email) :
            IF guardian = null
            THEN Throw(s, op, "NotFound")
            ELSE IF guardian.role # GUARDIAN
            THEN Throw(s, op, "Forbidden")
            ELSE IF ~Has(guardian, "dependents")
            THEN Throw(s, op, "TypeError")
            ELSE LET item == [guardian EXCEPT !.dependents =
                                 IF op = "addGuardian"
                                 THEN addGuardian_dependents(@, sessions[s].id)
                                 ELSE UsersIndex_removeGuardian_dependents(@, sessions[s].id)]
                 IN /\ Await(s, op, item, null, Guardian_returned(item))
                    /\ UNCHANGED uuidCount

UsersIndex_addGuardian(s, email) == UsersIndex_Guardian_update(s, "addGuardian", email)

UsersIndex_removeGuardian(s, email) == UsersIndex_Guardian_update(s, "removeGuardian", email)

\* a whole addGuardian / removeGuardian call of the logged-in student
\* studentId, run without interleaving: the possible tables after it
Users_guardianCall(table, op, studentId, email) ==
  {IF guardian = null \/ guardian.role # GUARDIAN \/ ~Has(guardian, "dependents")
   THEN table
   ELSE Put(table, [guardian EXCEPT !.dependents =
                      IF op = "addGuardian"
                      THEN addGuardian_dependents(@, studentId)
                      ELSE removeGuardian_dependents(@, studentId)])
     : guardian \in Users_lookupIn(table, TRUE, TRUE, NoId, email)}

UsersIndex_guardianCall(table, op, studentId, email) ==
  {IF guardian = null \/ guardian.role # GUARDIAN \/ ~Has(guardian, "dependents")
   THEN table
   ELSE Put(table, [guardian EXCEPT !.dependents =
                      IF op = "addGuardian"
                      THEN addGuardian_dependents(@, studentId)
                      ELSE UsersIndex_removeGuardian_dependents(@, studentId)])
     : guardian \in Users_lookupIn(table, TRUE, FALSE, NoId, email)}

\* client.Users.listDependents(guardianId) served by this handler: the
\* interface 'listDependents' is bound to users.listGuardians, which takes no
\* guardianId and reads context.session.user; the call of another service
\* carries no end-user session, so it throws at the first check, as a
\* TypeError when the context has no session object at all
UsersIndex_listDependents(guardianId) == {Err("Unauthenticated"), Err("TypeError")}

\* listEnrolledClassrooms with the Users service of src/users/index.js
UsersIndex_Classrooms_listEnrolledClassrooms(user, studentId) ==
  Classrooms_listEnrolledClassroomsWith(user, studentId,
    IF user = undefined THEN {} ELSE UsersIndex_listDependents(user.id))

UsersIndex_listEnrolledClassrooms(s, studentId) ==
  /\ pending[s] = Idle
  /\ \E r \in UsersIndex_Classrooms_listEnrolledClassrooms(sessions[s], studentId) :
       Return(s, "listEnrolledClassrooms", r)
  /\ UNCHANGED <<users, classrooms, components, tasks, sessions, uuidCount>>

\* UserService.listGuardians / listDependents of src/unnamed/part_000 called
\* by an end-user: the supplied id is replaced by the caller's
Users_listGuardiansAsUser(user, studentId) ==
  IF user = undefined THEN Err("Unauthenticated")
  ELSE IF user.role # STUDENT THEN Err("Forbidden")
  ELSE Ok([items |-> Users_listGuardians(user.id)])

Users_listDependentsAsUser(user, guardianId) ==
  IF user = undefined THEN {Err("Unauthenticated")}
  ELSE IF user.role # GUARDIAN THEN {Err("Forbidden")}
  ELSE Users_listDependents(user.id)

\* UserService.listGuardians of src/users/index.js: it takes no studentId,
\* always tests the session and returns the records whose dependents
\* contain the caller
UsersIndex_listGuardians(user) ==
  IF user = undefined THEN Err("Unauthenticated")
  ELSE IF user.role # STUDENT THEN Err("Forbidden")
  ELSE Ok([items |-> {Project(g, UserFields) : g \in
                        {u \in Range(users) :
                           Has(u, "dependents") /\ user.id \in Elems(u.dependents)}}])

\* the interface 'listDependents' of src/users/index.js, bound to
\* users.listGuardians
UsersIndex_handler_listDependents(user) == UsersIndex_listGuardians(user)

\* listGuardians of src/users/index.js called by another service with an
\* explicit studentId: no end-user session, so the first check throws (a
\* TypeError when the context has no session object)
UsersIndex_listGuardiansInternal(studentId) == {Err("Unauthenticated"), Err("TypeError")}

\* the Users service of src/users/index.js on the users of the Guardians
\* specification; the guardians' sessions may log in again
UsersIndexNext ==
  \/ \E s \in DOMAIN sessions, st \in Students : UsersIndex_listEnrolledClassrooms(s, st)
  \/ \E s \in DOMAIN sessions, email \in GuardianEmails : UsersIndex_addGuardian(s, email)
  \/ \E s \in DOMAIN sessions, email \in GuardianEmails : UsersIndex_removeGuardian(s, email)
  \/ \E s \in DOMAIN sessions : Users_put(s)
  \/ \E s \in {"g1", "g2"}, email \in {"g1@x", "g2@x"} : login(s, email, "pw1")
  \/ \E s \in DOMAIN sessions : listGuardians(s)

SpecUsersIndex == GuardiansInit /\ [][UsersIndexNext]_vars

\* updateProfile / updatePassword of src/users/index.js: me() is called
\* without includeDependents, so the record they merge into and put has no
\* dependents attribute
UsersIndex_updateProfile(s, email, firstName, lastName, role) ==
  /\ pending[s] = Idle
  /\ \E r \in Users_me(s, FALSE, TRUE) :
       IF ~r.ok
       THEN Throw(s, "updateProfile", r.error)
       ELSE IF r.value = null
       THEN Throw(s, "updateProfile", "TypeError")
       ELSE LET user == updateProfile_user(r.value, email, firstName, lastName, role)
                out == Without(user, "passwordHash")
            IN /\ Await(s, "updateProfile", user, out, out)
               /\ UNCHANGED uuidCount

UsersIndex_updatePassword(s, newPassword, oldPassword) ==
  /\ pending[s] = Idle
  /\ \E r \in Users_me(s, FALSE, TRUE) :
       IF ~r.ok
       THEN Throw(s, "updatePassword", r.error)
       ELSE IF r.value = null
       THEN Throw(s, "updatePassword", "TypeError")
       ELSE IF ~Has(r.value, "passwordHash")
       THEN Throw(s, "updatePassword", "TypeError")
       ELSE IF ~BcryptCompare(oldPassword, r.value.passwordHash)
       THEN Throw(s, "updatePassword", "Unauthorized")
       ELSE LET user == With(r.value, "passwordHash", BcryptHash(newPassword))
                out == Without(user, "passwordHash")
            IN /\ Await(s, "updatePassword", user, out, out)
               /\ UNCHANGED uuidCount

\* ---------------------------------------------------------------- Profiles specification
\* The Users service of src/users/index.js with both guardians and student 3
\* logged in: profile and password updates, and student 3 adding guardians.
ProfileSessions ==
  [s \in {"st1", "g1", "g2"} |->
     Project(GradeUsers[CASE s = "st1" -> 3 [] s = "g1" -> 5 [] s = "g2" -> 6], UserFields)]

ProfilesInit ==
  /\ users = GradeUsers
  /\ classrooms = <<>>
  /\ components = <<>>
  /\ tasks = <<>>
  /\ sessions = ProfileSessions
  /\ pending = [s \in DOMAIN ProfileSessions |-> Idle]
  /\ last = NoCall
  /\ uuidCount = 6
  /\ revoked = {}

ProfilesNext ==
  \/ \E s \in DOMAIN sessions, role \in {NoStr, GUARDIAN} :
       InFlight < MaxInFlight /\ UsersIndex_updateProfile(s, NoStr, "Bob", NoStr, role)
  \/ \E s \in DOMAIN sessions :
       InFlight < MaxInFlight /\ UsersIndex_updatePassword(s, "pw2", "pw1")
  \/ \E s \in DOMAIN sessions, email \in {"g1@x", "g2@x"} :
       InFlight < MaxInFlight /\ UsersIndex_addGuardian(s, email)
  \/ \E s \in DOMAIN sessions : Users_put(s)

SpecProfiles == ProfilesInit /\ [][ProfilesNext]_vars

\* ---------------------------------------------------------------- Services specification
\* Every mutating operation of the four services, called one at a time by
\* educator 1 and by a session that starts logged out and may log in as
\* student 3 and log out again; the tables hold the Grades users, Algebra
\* with student 3, the component Quiz with student 3's grade, and a task of
\* student 3.
Essay ==
  [id |-> 9, title |-> "essay", classroom |-> 7, deadline |-> "2021-04-01",
   student |-> 3, completedStudents |-> <<>>]

ServiceSessions ==
  [s \in {"e1", "out"} |->
     IF s = "out" THEN undefined ELSE Project(GradeUsers[1], UserFields)]

ServicesInit ==
  /\ users = GradeUsers
  /\ classrooms = (7 :> [Algebra EXCEPT !.students = <<3>>])
  /\ components = (8 :> Quiz)
  /\ tasks = (9 :> Essay)
  /\ sessions = ServiceSessions
  /\ pending = [s \in DOMAIN ServiceSessions |-> Idle]
  /\ last = NoCall
  /\ uuidCount = 9
  /\ revoked = {}

ServicesNext ==
  \/ \E s \in DOMAIN sessions :
       InFlight = 0 /\ signup(s, "st1@x", "Ann", "Lee", STUDENT, "pw1")
  \/ InFlight = 0 /\ login("out", "st1@x", "pw1")
  \/ InFlight = 0 /\ logout("out")
  \/ \E s \in DOMAIN sessions : InFlight = 0 /\ updateProfile(s, NoStr, "Bob", NoStr, NoStr)
  \/ \E s \in DOMAIN sessions : InFlight = 0 /\ updatePassword(s, "pw1", "pw1")
  \/ \E s \in DOMAIN sessions : InFlight = 0 /\ addGuardian(s, "g1@x")
  \/ \E s \in DOMAIN sessions : InFlight = 0 /\ removeGuardian(s, "g1@x")
  \/ \E s \in DOMAIN sessions : Users_put(s)
  \/ \E s \in DOMAIN sessions :
       InFlight = 0 /\ uuidCount < 9 + MaxCreated /\ create(s, "Biology")
  \/ \E s \in DOMAIN sessions : InFlight = 0 /\ enroll(s, 7, "st1@x")
  \/ \E s \in DOMAIN sessions : InFlight = 0 /\ withdraw(s, 7, "st1@x")
  \/ \E s \in DOMAIN sessions : Classrooms_put(s)
  \/ \E s \in DOMAIN sessions :
       InFlight = 0 /\ uuidCount < 9 + MaxCreated /\ Tasks_create(s, "quiz", "2021-04-01", 7)
  \/ \E s \in DOMAIN sessions : InFlight = 0 /\ Tasks_update(s, 9, NoStr, "2021-04-01")
  \/ \E s \in DOMAIN sessions : InFlight = 0 /\ Tasks_delete(s, 9)
  \/ \E s \in DOMAIN sessions : InFlight = 0 /\ updateCompleteness(s, 9, TRUE)
  \/ \E s \in DOMAIN sessions : Tasks_put(s)
  \/ \E s \in DOMAIN sessions : Tasks_dbDelete(s)
  \/ \E s \in DOMAIN sessions :
       InFlight = 0 /\ uuidCount < 9 + MaxCreated /\ addGradingComponent(s, 7, "Final", 100, 1)
  \/ \E s \in DOMAIN sessions : InFlight = 0 /\ updateGradingComponent(s, 8, "Midterm", NoNumber, NoNumber)
  \/ \E s \in DOMAIN sessions : InFlight = 0 /\ removeGradingComponent(s, 8)
  \/ \E s \in DOMAIN sessions : Grades_component_classroom(s)
  \/ \E s \in DOMAIN sessions : InFlight = 0 /\ postGrade(s, 8, 3, 85, "good")
  \/ \E s \in DOMAIN sessions : postGrade_classroom(s)
  \/ \E s \in DOMAIN sessions : InFlight = 0 /\ updateGrade(s, 8, 3, 90, "fair")
  \/ \E s \in DOMAIN sessions : updateGrade_classroom(s)
  \/ \E s \in DOMAIN sessions : InFlight = 0 /\ removeGrade(s, 8, 3)
  \/ \E s \in DOMAIN sessions : removeGrade_classroom(s)
  \/ \E s \in DOMAIN sessions : Grades_put(s)

SpecServices == ServicesInit /\ [][ServicesNext]_vars

\* ---------------------------------------------------------------- Races specification
\* The instructor of Algebra works from two sessions and the two students
\* from one each; nobody is enrolled yet and the component Quiz holds no
\* grade.  Handlers interleave freely between their reads and their put.
RaceSessions ==
  [s \in {"e1", "e1b", "st1", "st2"} |->
     Project(GradeUsers[CASE s = "e1" -> 1 [] s = "e1b" -> 1 [] s = "st1" -> 3
                          [] s = "st2" -> 4], UserFields)]

RacesInit ==
  /\ users = GradeUsers
  /\ classrooms = (7 :> Algebra)
  /\ components = (8 :> [Quiz EXCEPT !.grades = <<>>])
  /\ tasks = <<>>
  /\ sessions = RaceSessions
  /\ pending = [s \in DOMAIN RaceSessions |-> Idle]
  /\ last = NoCall
  /\ uuidCount = 8
  /\ revoked = {}

RacesNext ==
  \/ \E s \in DOMAIN sessions, email \in {"st1@x", "st2@x"} : enroll(s, 7, email)
  \/ \E s \in DOMAIN sessions : Classrooms_put(s)
  \/ \E s \in DOMAIN sessions, st \in Students : postGrade(s, 8, st, 85, "good")
  \/ \E s \in DOMAIN sessions : postGrade_classroom(s)
  \/ \E s \in DOMAIN sessions : Grades_put(s)

SpecRaces == RacesInit /\ [][RacesNext]_vars

\* ================================================================ claims

\* the caller of a pending postGrade is the instructor of the component's classroom
ByInstructor(s) ==
  /\ sessions[s] # undefined
  /\ sessions[s].role = EDUCATOR
  /\ pending[s].component.classroom \in DOMAIN classrooms
  /\ classrooms[pending[s].component.classroom].instructor = sessions[s].id

\* a postGrade that has read its component takes its next step
PostGradeChecks(s) ==
  /\ pending[s].op = "postGrade"
  /\ pending[s].table = "none"
  /\ pending'[s] # pending[s]

AlreadyPosted(s) == FindGrade(pending[s].component.grades, pending[s].grade.student) # undefined

StillEnrolled(s) ==
  pending[s].grade.student \in Elems(classrooms[pending[s].component.classroom].students)

\* C1 (as claimed): postGrade(g, s) by the instructor, when g.grades already
\* holds an entry for s, fails with Conflict and leaves every stored record
\* unchanged.
C1_RepostIsConflict ==
  [][\A s \in DOMAIN pending :
       (PostGradeChecks(s) /\ ByInstructor(s) /\ AlreadyPosted(s)) =>
         /\ last' = [op |-> "postGrade", status |-> "Conflict", hash |-> FALSE]
         /\ UNCHANGED <<users, classrooms, components, tasks>>
    ]_vars

\* C1 (amended): postGrade(g, s) by the instructor, when g.grades already
\* holds an entry for s, fails and leaves every stored record unchanged; the
\* error is Conflict when s is still enrolled in g's classroom and the
\* not-enrolled error (Forbidden) when s has withdrawn.
C1_RepostFails ==
  [][\A s \in DOMAIN pending :
       (PostGradeChecks(s) /\ ByInstructor(s) /\ AlreadyPosted(s)) =>
         /\ pending'[s] = Idle
         /\ last'.op = "postGrade"
         /\ last'.status = (IF StillEnrolled(s) THEN "Conflict" ELSE "Forbidden")
         /\ UNCHANGED <<users, classrooms, components, tasks>>
    ]_vars

\* C1 witness: a second postGrade for an enrolled, already graded student was
\* refused with Conflict
C1_Witness ==
  /\ last = [op |-> "postGrade", status |-> "Conflict", hash |-> FALSE]
  /\ \E c \in Range(components) : c.grades # <<>>

\* C2: whenever a postGrade call stores an entry for student s in component
\* g, s is in the students of g's classroom at the moment of that db.put, in
\* every interleaving with withdraw.
C2_EnrolledAtPut ==
  [][\A s \in DOMAIN pending :
       (pending[s].op = "postGrade" /\ pending[s].table = "Grades" /\ pending'[s] = Idle) =>
         pending[s].ret.student \in Elems(classrooms[pending[s].item.classroom].students)
    ]_vars

\* who may read student st's grade in component c (C4's three cases)
MayReadGrade(user, classroomId, st) ==
  \/ user.role = STUDENT /\ user.id = st
  \/ /\ user.role = GUARDIAN
     /\ user.id \in DOMAIN users
     /\ Has(users[user.id], "dependents")
     /\ st \in Elems(users[user.id].dependents)
  \/ /\ user.role = EDUCATOR
     /\ classroomId \in DOMAIN classrooms
     /\ classrooms[classroomId].instructor = user.id

\* C3: lookupGrade(g, s) by an authorized caller returns exactly the stored
\* entry {student, score, comments} of s, and null when s has no entry.
C3_LookupReturnsEntry ==
  \A s \in DOMAIN sessions, c \in DOMAIN components, st \in Students :
    (sessions[s] # undefined /\ MayReadGrade(sessions[s], components[c].classroom, st)) =>
      LET r == Grades_lookupGrade(sessions[s], c, st)
          entry == FindGrade(components[c].grades, st)
      IN r.ok /\ r.value = (IF entry = undefined THEN null ELSE entry)

\* C4: lookupGrade(g, s) succeeds only for student s, a GUARDIAN whose stored
\* dependents contain s, or the EDUCATOR instructing g's classroom; every
\* other logged-in caller gets Forbidden.
C4_LookupGradeAccess ==
  \A s \in DOMAIN sessions, c \in DOMAIN components, st \in DOMAIN users :
    sessions[s] # undefined =>
      LET r == Grades_lookupGrade(sessions[s], c, st)
      IN IF MayReadGrade(sessions[s], components[c].classroom, st)
         THEN r.ok
         ELSE r = Err("Forbidden")

\* C4 witness: on a stored component the linked guardian is served and the
\* unrelated guardian, the other student and the other educator are refused
C4_Witness ==
  /\ last.op = "lookupGrade"
  /\ \E c \in DOMAIN components :
       /\ components[c].grades # <<>>
       /\ Grades_lookupGrade(sessions["g1"], c, 3).ok
       /\ Grades_lookupGrade(sessions["g2"], c, 3) = Err("Forbidden")
       /\ Grades_lookupGrade(sessions["st2"], c, 3) = Err("Forbidden")
       /\ Grades_lookupGrade(sessions["e2"], c, 3) = Err("Forbidden")

\* the Grades table with every entry of a student other than st removed
OnlyEntriesOf(table, st) ==
  [c \in DOMAIN table |->
     [table[c] EXCEPT !.grades = SelectSeq(@, LAMBDA g : g.student = st)]]

\* the students whose score or comments a listGrades result carries
StudentsIn(result) ==
  IF result.ok
  THEN {e.grade.student : e \in {x \in result.value.items : x.grade # undefined}}
  ELSE {}

C6_ListGradesPerComponent ==
  \A s \in DOMAIN sessions, c \in DOMAIN classrooms, st \in Students :
    (sessions[s] # undefined /\ MayReadGrade(sessions[s], c, st)) =>
      LET r == Grades_listGrades(components, sessions[s], c, st)
      IN /\ r.ok
         /\ r.value.items =
              {[id |-> g.id, title |-> g.title, total |-> g.total, weight |-> g.weight,
                classroom |-> g.classroom, grade |-> FindGrade(g.grades, st)]
                 : g \in {x \in Range(components) : x.classroom = c}}

\* C7: once removeGuardian(s, gd) has completed, every later lookupGrade,
\* listGrades or listEnrolledClassrooms call by gd for subject s fails with
\* Forbidden until s calls addGuardian for gd again.
C7_RevokedGuardianForbidden ==
  \A link \in revoked : \A g \in DOMAIN sessions :
    (sessions[g] # undefined /\ sessions[g].id = link[2]) =>
      /\ \A c \in DOMAIN components :
           Grades_lookupGrade(sessions[g], c, link[1]) = Err("Forbidden")
      /\ \A c \in DOMAIN classrooms :
           Grades_listGrades(components, sessions[g], c, link[1]) = Err("Forbidden")
      /\ \A r \in Classrooms_listEnrolledClassrooms(sessions[g], link[1]) :
           r = Err("Forbidden")

\* C8: no operation an end-user invokes returns a record carrying a
\* passwordHash, and no session's user projection carries one.
C8_NoPasswordHashReturned ==
  /\ ~last.hash
  /\ \A s \in DOMAIN sessions : ~Has(sessions[s], "passwordHash")

\* C9: in every reachable state no two stored User records have the same
\* case-folded email (signup and updateProfile, in any interleaving, keep
\* e-mails unique).
C9_UniqueEmails ==
  \A u, v \in Range(users) : u.id # v.id => ToLowerCase(u.email) # ToLowerCase(v.email)

\* C10: when a signup returns user u, lookup by u.id and lookup by u's email
\* in any letter case return a record with u's id, email, firstName, lastName
\* and role, without passwordHash unless includePasswordHash is set.
C10_SignupLookupAgree ==
  [][\A s \in DOMAIN pending :
       (pending[s].op = "signup" /\ pending'[s] = Idle) =>
         LET u == pending[s].ret
             spellings == {e \in Emails : ToLowerCase(e) = u.email}
             found(hash) == Users_lookupIn(users', FALSE, hash, u.id, NoStr)
                            \cup UNION {Users_lookupIn(users', FALSE, hash, NoId, e) : e \in spellings}
         IN /\ \A r \in found(FALSE) :
                 /\ Project(r, UserFields) = Project(u, UserFields)
                 /\ ~Has(r, "passwordHash")
            /\ \A r \in found(TRUE) : Project(r, UserFields) = Project(u, UserFields)
    ]_vars

\* the stored records with the given e-mail, as lookup's filter matches them
ByEmail(email) == {u \in Range(users) : u.email = ToLowerCase(email)}

StoredStudents == {u \in Range(users) : u.role = STUDENT}
StoredGuardians == {u \in Range(users) : u.role = GUARDIAN /\ Has(u, "dependents")}

\* table t2, reached by student s adding and then removing guardian g, has
\* g's dependents as they were (when s was not among them)
AddRemoveRestores(s, g, t2) ==
  s.id \notin Elems(g.dependents) => t2[g.id].dependents = g.dependents

\* C12: for a student s and a guardian gd, addGuardian followed by
\* removeGuardian for gd's email returns gd's stored dependents to what it
\* was (when s was not in it), and addGuardian twice leaves the same stored
\* dependents as addGuardian once; in both versions of the Users service.
C12_AddRemoveAddAdd ==
  \A s \in StoredStudents, g \in StoredGuardians :
    /\ \A t1 \in Users_guardianCall(users, "addGuardian", s.id, g.email) :
         /\ s.id \in Elems(t1[g.id].dependents)
         /\ \A t2 \in Users_guardianCall(t1, "removeGuardian", s.id, g.email) :
              AddRemoveRestores(s, g, t2)
         /\ \A t2 \in Users_guardianCall(t1, "addGuardian", s.id, g.email) :
              t2[g.id].dependents = t1[g.id].dependents
    /\ \A t1 \in UsersIndex_guardianCall(users, "addGuardian", s.id, g.email) :
         /\ s.id \in Elems(t1[g.id].dependents)
         /\ \A t2 \in UsersIndex_guardianCall(t1, "removeGuardian", s.id, g.email) :
              AddRemoveRestores(s, g, t2)
         /\ \A t2 \in UsersIndex_guardianCall(t1, "addGuardian", s.id, g.email) :
              t2[g.id].dependents = t1[g.id].dependents

\* C12 witness: student 4 added and then removed guardian 5, whose
\* dependents are again those it started with
C12_Witness ==
  /\ last.op = "removeGuardian" /\ last.status = "ok"
  /\ <<4, 5>> \in revoked
  /\ users[5].dependents = <<3>>

\* session s completes the db.put of a successful addGuardian / removeGuardian
GuardianPut(s, op) ==
  /\ pending[s].op = op
  /\ pending'[s] = Idle
  /\ last'.status = "ok"

\* C13: removeGuardian called by a student whose id is not in the target
\* guardian's dependents leaves that dependents set unchanged: no other
\* dependent is removed.
C13_RemoveAbsentIsNoOp ==
  [][\A s \in DOMAIN pending :
       (/\ GuardianPut(s, "removeGuardian")
        /\ sessions[s].id \notin Elems(users[pending[s].item.id].dependents)) =>
         users'[pending[s].item.id].dependents = users[pending[s].item.id].dependents
    ]_vars

\* C14: a successful addGuardian or removeGuardian changes nothing in the
\* store except the target guardian's dependents: the guardian's id, email,
\* names, role and passwordHash keep their values and every other record is
\* unchanged.
C14_GuardianFrame ==
  [][\A s \in DOMAIN pending :
       (GuardianPut(s, "addGuardian") \/ GuardianPut(s, "removeGuardian")) =>
         /\ DOMAIN users' = DOMAIN users
         /\ \A id \in DOMAIN users :
              IF id = pending[s].item.id
              THEN Without(users'[id], "dependents") = Without(users[id], "dependents")
              ELSE users'[id] = users[id]
    ]_vars

\* session s passes addGuardian's checks (the call goes on to its db.put)
AddGuardianAccepted(s) ==
  /\ pending[s] = Idle
  /\ pending'[s] # Idle
  /\ pending'[s].op = "addGuardian"

\* C15: every id an addGuardian call inserts into a guardian's dependents
\* belongs to a user whose stored role is STUDENT at the moment of
\* insertion, also when the calling session still caches role STUDENT after
\* the user changed role in another session; a caller whose role is not
\* STUDENT and a target whose role is not GUARDIAN are rejected without a
\* write.
C15_DependentsAreStudents ==
  [][\A s \in DOMAIN pending :
       /\ AddGuardianAccepted(s) =>
            /\ users[sessions[s].id].role = STUDENT
            /\ users[pending'[s].item.id].role = GUARDIAN
       /\ (GuardianPut(s, "addGuardian")
           /\ sessions[s].id \in Elems(users'[pending[s].item.id].dependents)
           /\ sessions[s].id \notin Elems(users[pending[s].item.id].dependents)) =>
            users[sessions[s].id].role = STUDENT
    ]_vars

\* C16: in every reachable state a stored User record has a dependents
\* field exactly when its role is GUARDIAN.
C16_DependentsIffGuardian ==
  \A u \in Range(users) : Has(u, "dependents") <=> u.role = GUARDIAN

\* C16 witness: updateProfile has made a guardian of student 1, whose
\* dependents were created empty, next to a signed-up user of another role
\* stored without the field
C16_Witness ==
  /\ last.op = "updateProfile" /\ last.status = "ok"
  /\ 2 \in DOMAIN users
  /\ users[1].role = GUARDIAN /\ users[1].dependents = <<>>
  /\ users[2].role # GUARDIAN /\ ~Has(users[2], "dependents")

\* the logged-in users and the inputs of enroll / withdraw
Callers == {sessions[s] : s \in {x \in DOMAIN sessions : sessions[x] # undefined}}

\* C17: after a successful enroll of student u in classroom c the classrooms
\* listed for u include c; after a following successful withdraw of u from c
\* they no longer do; listEnrolledClassrooms by student u returns exactly the
\* classrooms whose students contain u.
C17_EnrollListWithdraw ==
  /\ \A user \in Callers, c \in DOMAIN classrooms, email \in ClassroomEmails :
       \A o \in Classrooms_call(classrooms, "enroll", user, c, email) :
         /\ o.table[c] \in Classrooms_enrolledIn(o.table, o.subject)
         /\ Classrooms_call(o.table, "withdraw", user, c, email) # {}
         /\ \A w \in Classrooms_call(o.table, "withdraw", user, c, email) :
              /\ w.subject = o.subject
              /\ \A x \in Classrooms_enrolledIn(w.table, o.subject) : x.id # c
  /\ \A user \in Callers, st \in Students :
       user.role = STUDENT =>
         Classrooms_listEnrolledClassrooms(user, st) =
           {Ok([items |-> {x \in Range(classrooms) : user.id \in Elems(x.students)}])}

\* C17 witness: student 3, enrolled in Algebra and having listed its
\* classrooms, has a withdraw from Algebra on its way to the store
C17_Witness ==
  /\ last = [op |-> "listEnrolledClassrooms", status |-> "ok", hash |-> FALSE]
  /\ 3 \in Elems(classrooms[7].students)
  /\ pending["st1"].op = "withdraw"
  /\ pending["st1"].item.id = 7
  /\ 3 \notin Elems(pending["st1"].item.students)

\* C18: enroll of a student already in students and withdraw of a student
\* not in it succeed and leave students unchanged; in every reachable state,
\* also after interleaved concurrent enroll calls, students holds each user
\* id at most once.
C18_IdempotentNoDuplicates ==
  /\ \A c \in Range(classrooms) : Cardinality(Elems(c.students)) = Len(c.students)
  /\ \A user \in Callers, c \in DOMAIN classrooms, email \in ClassroomEmails :
       /\ \A o \in Classrooms_call(classrooms, "enroll", user, c, email) :
            o.subject \in Elems(classrooms[c].students) => o.table = classrooms
       /\ \A o \in Classrooms_call(classrooms, "withdraw", user, c, email) :
            o.subject \notin Elems(classrooms[c].students) => o.table = classrooms
       /\ user.role = STUDENT =>
            /\ Classrooms_call(classrooms, "enroll", user, c, email) # {}
            /\ Classrooms_call(classrooms, "withdraw", user, c, email) # {}

\* C18 witness: student 3, already enrolled in Algebra, enrolls again while
\* student 4's enroll is in flight
C18_Witness ==
  /\ 3 \in Elems(classrooms[7].students)
  /\ pending["st1"].op = "enroll"
  /\ pending["st1"].item = classrooms[7]
  /\ pending["st2"].op = "enroll"

\* who may enroll / withdraw in classroom c with this email, and whom
EnrollSubjects(user, c, email) ==
  IF user.role = STUDENT THEN {user.id}
  ELSE IF user.role = EDUCATOR /\ classrooms[c].instructor = user.id
  THEN {u.id : u \in {x \in Range(users) : x.role = STUDENT /\ email # NoStr
                                             /\ x.email = ToLowerCase(email)}}
  ELSE {}

\* table t differs from the stored classrooms at most in whether u is a
\* member of classroom c
OnlyMembershipOf(t, c, u) ==
  /\ DOMAIN t = DOMAIN classrooms
  /\ \A k \in DOMAIN t : k # c => t[k] = classrooms[k]
  /\ [t[c] EXCEPT !.students = <<>>] = [classrooms[c] EXCEPT !.students = <<>>]
  /\ Elems(t[c].students) \ {u} = Elems(classrooms[c].students) \ {u}

\* C19: a successful enroll or withdraw changes membership of exactly one
\* user id u in classroom c: the caller's own id for a STUDENT caller
\* whatever the email, the STUDENT with the given email for the EDUCATOR
\* instructing c; guardians, other educators, unknown and non-student
\* emails are rejected; and these are the calls the handlers put.
C19_EnrollSubject ==
  /\ [](\A user \in Callers, c \in DOMAIN classrooms, email \in ClassroomEmails,
           op \in {"enroll", "withdraw"} :
          LET outs == Classrooms_call(classrooms, op, user, c, email)
          IN /\ {o.subject : o \in outs} = EnrollSubjects(user, c, email)
             /\ \A o \in outs :
                  /\ OnlyMembershipOf(o.table, c, o.subject)
                  /\ (o.subject \in Elems(o.table[c].students)) = (op = "enroll"))
  /\ [][\A s \in DOMAIN pending :
          (pending[s] = Idle /\ pending'[s] # Idle /\ pending'[s].op \in {"enroll", "withdraw"}) =>
            \E email \in ClassroomEmails :
              \E o \in Classrooms_call(classrooms, pending'[s].op, sessions[s],
                                       pending'[s].item.id, email) :
                o.table[pending'[s].item.id] = pending'[s].item
       ]_vars
  /\ [][(last'.op \in {"enroll", "withdraw"} /\ last'.status # "ok" /\ last' # last) =>
          classrooms' = classrooms]_vars

\* C19 witness: a caller was refused while the instructor's enroll of
\* student 3 by e-mail is on its way to the store
C19_Witness ==
  /\ last.op \in {"enroll", "withdraw"} /\ last.status = "Forbidden"
  /\ pending["e1"].op = "enroll"
  /\ 3 \in Elems(pending["e1"].item.students)
  /\ 3 \notin Elems(classrooms[7].students)

\* C20: listEnrolledClassrooms by a GUARDIAN with studentId st returns st's
\* classrooms only if st is in the caller's stored dependents and fails with
\* Forbidden otherwise; by a STUDENT it returns the caller's own classrooms
\* whatever studentId was passed; an EDUCATOR is rejected.
C20_GuardianListing ==
  \A user \in Callers, st \in Students :
    LET outs == UsersIndex_Classrooms_listEnrolledClassrooms(user, st)
        mine == IF Has(users[user.id], "dependents")
                THEN Elems(users[user.id].dependents) ELSE {}
    IN IF user.role = GUARDIAN
       THEN \A r \in outs :
              /\ r.ok => /\ st \in mine
                         /\ r.value.items = Classrooms_enrolledIn(classrooms, st)
              /\ st \notin mine => r = Err("Forbidden")
       ELSE IF user.role = STUDENT
       THEN outs = {Ok([items |-> Classrooms_enrolledIn(classrooms, user.id)])}
       ELSE outs = {Err("Forbidden")}

\* C21: Classrooms.create succeeds only for a logged-in EDUCATOR and stores a
\* classroom whose instructor is the caller's id and whose students is
\* empty; in every later state that classroom's id, title and instructor
\* have the same value.
C21_CreateFixesInstructor ==
  [][/\ \A s \in DOMAIN pending :
          (pending[s] # Idle /\ pending[s].op = "create" /\ pending'[s] = Idle) =>
            /\ sessions[s] # undefined
            /\ sessions[s].role = EDUCATOR
            /\ last' = [op |-> "create", status |-> "ok", hash |-> FALSE]
            /\ pending[s].item.id \notin DOMAIN classrooms
            /\ classrooms' = Put(classrooms, pending[s].item)
            /\ classrooms'[pending[s].item.id].instructor = sessions[s].id
            /\ classrooms'[pending[s].item.id].students = <<>>
     /\ (DOMAIN classrooms' # DOMAIN classrooms) =>
          \E s \in DOMAIN pending : pending[s] # Idle /\ pending[s].op = "create"
                                       /\ pending'[s] = Idle
     /\ \A id \in DOMAIN classrooms :
          /\ id \in DOMAIN classrooms'
          /\ classrooms'[id].id = classrooms[id].id
          /\ classrooms'[id].title = classrooms[id].title
          /\ classrooms'[id].instructor = classrooms[id].instructor
    ]_vars

\* C21 witness: a classroom created by educator 1 has a student enrolled
\* while educator 2's create is on its way to the store
C21_Witness ==
  /\ \E id \in DOMAIN classrooms :
       classrooms[id].instructor = 1 /\ classrooms[id].students # <<>>
  /\ pending["e2"] # Idle
  /\ pending["e2"].op = "create"

\* the handler of session s returns from its db.put / db.delete of op
Completes(s, op) == pending[s] # Idle /\ pending[s].op = op /\ pending'[s] = Idle

\* C22: Tasks.create by a STUDENT stores a task with student = the caller's
\* id, by the EDUCATOR instructing the classroom a task with student = null;
\* other educators and guardians are rejected; every stored task with a
\* non-null student has that student in the students of its classroom.
C22_TaskStudentEnrolled ==
  /\ [](\A task \in Range(tasks) :
          task.student # NoId =>
            task.student \in Elems(classrooms[task.classroom].students))
  /\ [][\A s \in DOMAIN pending :
          Completes(s, "Tasks.create") =>
            /\ tasks' = Put(tasks, pending[s].item)
            /\ \/ sessions[s].role = STUDENT /\ pending[s].item.student = sessions[s].id
               \/ /\ sessions[s].role = EDUCATOR
                  /\ classrooms[pending[s].item.classroom].instructor = sessions[s].id
                  /\ pending[s].item.student = NoId
       ]_vars

\* the caller is the one the task's scope entitles
TaskOwner(user, task) ==
  IF task.student = NoId THEN classrooms[task.classroom].instructor = user.id
  ELSE task.student = user.id

\* C23: Tasks.update and Tasks.delete succeed only when the task is
\* class-scoped and the caller instructs its classroom, or student-scoped
\* and the caller is that student; for any other caller they fail and the
\* task record is unchanged.
C23_OnlyOwnerTouches ==
  /\ [](\A s \in DOMAIN sessions, id \in DOMAIN tasks :
          sessions[s] # undefined =>
            (Tasks_owned(s, id).ok <=> TaskOwner(sessions[s], tasks[id])))
  /\ [][/\ \A s \in DOMAIN pending :
            (pending[s] = Idle /\ pending'[s] # Idle
               /\ pending'[s].op \in {"Tasks.update", "Tasks.delete"}) =>
              /\ pending'[s].item.id \in DOMAIN tasks
              /\ TaskOwner(sessions[s], tasks[pending'[s].item.id])
        /\ \A s \in DOMAIN pending :
            (Completes(s, "Tasks.update") \/ Completes(s, "Tasks.delete")) =>
              /\ TaskOwner(sessions[s], pending[s].item)
              /\ last'.status = "ok"
        /\ (last' # last /\ last'.op \in {"Tasks.update", "Tasks.delete"}
              /\ last'.status # "ok") => tasks' = tasks
       ]_vars

\* C23 witness: a caller was refused on the task student 3 scoped to itself
\* while student 3's own update of it is on its way to the store
C23_Witness ==
  /\ last.op \in {"Tasks.update", "Tasks.delete"} /\ last.status = "Forbidden"
  /\ pending["st1"] # Idle
  /\ pending["st1"].op = "Tasks.update"
  /\ pending["st1"].item.student = 3
  /\ pending["st1"].item.title = "essay"

\* C24: Tasks.list by an end-user STUDENT s returns exactly the tasks whose
\* student is s together with the class-scoped tasks of the classrooms
\* whose students contain s, whatever studentId was passed (both versions of
\* TaskService.list).
C24_StudentList ==
  \A user \in Callers, studentId \in Students \cup {NoId} :
    user.role = STUDENT =>
      {Tasks_list(user, studentId), ListStudentTasks_list(user)} =
       {Ok([items |-> {Project(task, TaskFields) : task \in
                         {x \in Range(tasks) :
                            \/ x.student = user.id
                            \/ /\ x.student = NoId
                               /\ user.id \in Elems(classrooms[x.classroom].students)}}])}

\* C24 witness: student 3, enrolled in Algebra, has listed its tasks while
\* the store holds a task of Algebra scoped to student 4
C24_Witness ==
  /\ last = [op |-> "Tasks.list", status |-> "ok", hash |-> FALSE]
  /\ \E task \in Range(tasks) : task.classroom = 7 /\ task.student = 4
  /\ 3 \in Elems(classrooms[7].students)

\* C25: updateCompleteness changes completedStudents only when the caller is
\* the owning student (the student a student-scoped task is scoped to, a
\* student enrolled in the classroom of a class-scoped task); any other
\* caller is rejected with the task unchanged; setting the same value twice
\* gives the same completedStudents as setting it once.
C25_OnlyOwnerToggles ==
  /\ [](\A cs \in {task.completedStudents : task \in Range(tasks)},
          userId \in Students, completed \in BOOLEAN :
          Tasks_completedStudents(Tasks_completedStudents(cs, userId, completed),
                                  userId, completed)
            = Tasks_completedStudents(cs, userId, completed))
  /\ [][\A s \in DOMAIN pending :
          (Completes(s, "updateCompleteness")
             /\ pending[s].item.id \in DOMAIN tasks
             /\ pending[s].item.completedStudents
                  # tasks[pending[s].item.id].completedStudents) =>
            /\ sessions[s].role = STUDENT
            /\ IF pending[s].item.student # NoId
               THEN pending[s].item.student = sessions[s].id
               ELSE sessions[s].id
                      \in Elems(classrooms[pending[s].item.classroom].students)
       ]_vars

\* the handler of session s, having read the component, takes its step from
\* the classroom lookup on
ClassroomStep(s, ops) ==
  /\ pending[s] # Idle
  /\ pending[s].op \in ops
  /\ pending[s].table = "none"
  /\ pending'[s] # pending[s]

\* the handler of session s goes on to its store write of item
GoesOnToWrite(s, item) ==
  /\ pending'[s] # Idle
  /\ pending'[s].table = "Grades"
  /\ pending'[s].item = item
  /\ last' = last

IsInstructor(s, component) ==
  /\ sessions[s] # undefined
  /\ sessions[s].role = EDUCATOR
  /\ component.classroom \in DOMAIN classrooms
  /\ classrooms[component.classroom].instructor = sessions[s].id

\* C26: addGradingComponent, updateGradingComponent and
\* removeGradingComponent succeed exactly when the caller is a logged-in
\* EDUCATOR instructing the component's classroom: add stores a component
\* with empty grades, update stores the changed component, remove deletes
\* it; for every other caller the collection is unchanged.
C26_InstructorManagesComponents ==
  [][\A s \in DOMAIN pending :
       /\ ClassroomStep(s, {"updateGradingComponent", "removeGradingComponent"}) =>
            IF IsInstructor(s, pending[s].component)
            THEN /\ pending'[s] # Idle
                 /\ pending'[s].table = "Grades"
                 /\ pending'[s].item.id = pending[s].component.id
                 /\ last' = last
            ELSE pending'[s] = Idle /\ last'.status # "ok" /\ components' = components
       /\ Completes(s, "addGradingComponent") =>
            /\ IsInstructor(s, pending[s].item)
            /\ pending[s].item.grades = <<>>
            /\ components' = Put(components, pending[s].item)
       /\ (pending'[s] # pending[s] /\ components' # components) =>
            IsInstructor(s, pending[s].item)
    ]_vars

\* C27: a successful updateGradingComponent sets each of title, total and
\* weight to its supplied value when one is supplied and leaves it at its
\* stored value otherwise, and leaves id, classroom and grades unchanged.
C27_SparseMerge ==
  \A component \in Range(components), title \in {NoStr, "Midterm"},
     total \in {NoNumber, 50}, weight \in {NoNumber, 2} :
    Grades_updateGradingComponent_component(component, title, total, weight) =
      [component EXCEPT !.title = IF title # NoStr THEN title ELSE @,
                        !.total = Num(IF total # NoNumber THEN total ELSE @),
                        !.weight = Num(IF weight # NoNumber THEN weight ELSE @)]

\* C28: updateGrade(g, s, fields) by the instructor fails with NotFound and
\* no write when g has no entry for s; otherwise it overwrites only the
\* supplied ones of score and comments in s's entry and leaves the other
\* entries, their order and g's metadata unchanged.
C28_UpdateGradeSparse ==
  [][\A s \in DOMAIN pending :
       (/\ ClassroomStep(s, {"updateGrade"})
        /\ IsInstructor(s, pending[s].component)
        /\ pending[s].grade.student \in Elems(classrooms[pending[s].component.classroom].students)) =>
         LET component == pending[s].component
             grade == pending[s].grade
             i == FindIndex(component.grades, grade.student)
         IN IF i = 0
            THEN /\ pending'[s] = Idle
                 /\ last' = [op |-> "updateGrade", status |-> "NotFound", hash |-> FALSE]
                 /\ components' = components
            ELSE GoesOnToWrite(s,
                   [component EXCEPT !.grades[i] =
                      [@ EXCEPT !.score = IF grade.score # NoNumber THEN grade.score ELSE @,
                                !.comments = IF grade.comments \notin {NotSupplied, NoStr}
                                             THEN grade.comments ELSE @]])
    ]_vars

\* C29: removeGrade(g, s) by the instructor of g's classroom, when g holds an
\* entry for s, succeeds and leaves g.grades without any entry for s and
\* with all other entries unchanged (so that postGrade(g, s) succeeds again).
C29_RemoveGradeRemoves ==
  [][\A s \in DOMAIN pending :
       (/\ ClassroomStep(s, {"removeGrade"})
        /\ IsInstructor(s, pending[s].component)
        /\ pending[s].grade.student \in Elems(classrooms[pending[s].component.classroom].students)
        /\ FindIndex(pending[s].component.grades, pending[s].grade.student) # 0) =>
         LET component == pending[s].component
             i == FindIndex(component.grades, pending[s].grade.student)
         IN GoesOnToWrite(s, [component EXCEPT !.grades = Splice(@, i)])
    ]_vars

\* C30: in every reachable state, under any interleaving of postGrade,
\* updateGrade and removeGrade calls, each grading component's grades holds
\* at most one entry per student id.
C30_OneEntryPerStudent ==
  \A component \in Range(components) :
    \A i, j \in 1..Len(component.grades) :
      component.grades[i].student = component.grades[j].student => i = j

\* C30 witness: an entry for student 3 is stored and updated while the
\* postGrade for student 3 of the instructor's other session, which read the
\* component before, is on its way to the store
C30_Witness ==
  /\ \E component \in Range(components) :
       \E i \in 1..Len(component.grades) :
         component.grades[i].student = 3 /\ component.grades[i].comments = "fair"
  /\ pending["e1b"] # Idle
  /\ pending["e1b"].op = "postGrade"
  /\ pending["e1b"].table = "Grades"
  /\ pending["e1b"].item.grades[Len(pending["e1b"].item.grades)].student = 3

\* the keys of a table that a step wrote: put of a new or changed item, or delete
WrittenKeys(before, after) ==
  {k \in DOMAIN before \cup DOMAIN after :
     k \notin DOMAIN before \/ k \notin DOMAIN after \/ before[k] # after[k]}

\* C31: a step that changes any of the four collections changes one item of
\* one collection, and it is the step in which a handler that was awaiting
\* its store write returns successfully; so a handler writes at most once,
\* after its checks, and a handler that ends with an error has written nothing
C31_OneWriteAtEnd ==
  [][LET written == Cardinality(WrittenKeys(users, users'))
                    + Cardinality(WrittenKeys(classrooms, classrooms'))
                    + Cardinality(WrittenKeys(components, components'))
                    + Cardinality(WrittenKeys(tasks, tasks'))
     IN written # 0 =>
          /\ written = 1
          /\ last'.status = "ok"
          /\ \E s \in DOMAIN pending :
               /\ pending[s] # Idle
               /\ pending[s].table # "none"
               /\ pending'[s] = Idle
               /\ last'.op = pending[s].op]_vars

\* updateGrade has written student 3's new score, and a later removeGrade
\* ended with its error after all its checks
C31_Witness ==
  /\ 8 \in DOMAIN components
  /\ components[8].grades[1].score = 90
  /\ last.op = "removeGrade"
  /\ last.status = "ReferenceError"
  /\ \A s \in DOMAIN pending : pending[s] = Idle

\* a call by session s of a mutating operation other than signup and login
MutatingCall(s) ==
  \/ updateProfile(s, NoStr, "Bob", NoStr, NoStr)
  \/ updatePassword(s, "pw1", "pw1")
  \/ addGuardian(s, "g1@x")
  \/ removeGuardian(s, "g1@x")
  \/ create(s, "Biology")
  \/ enroll(s, 7, "st1@x")
  \/ withdraw(s, 7, "st1@x")
  \/ Tasks_create(s, "quiz", "2021-04-01", 7)
  \/ Tasks_update(s, 9, NoStr, "2021-04-01")
  \/ Tasks_delete(s, 9)
  \/ updateCompleteness(s, 9, TRUE)
  \/ addGradingComponent(s, 7, "Final", 100, 1)
  \/ updateGradingComponent(s, 8, "Midterm", NoNumber, NoNumber)
  \/ removeGradingComponent(s, 8)
  \/ postGrade(s, 8, 3, 85, "good")
  \/ updateGrade(s, 8, 3, 90, "fair")
  \/ removeGrade(s, 8, 3)

\* C32: a session without a user awaits no store write of a mutating
\* operation; each mutating operation other than signup and login it calls
\* ends at once with Unauthenticated, with the four collections, the
\* sessions and the awaiting handlers unchanged; logout leaves the calling
\* session without a user.
C32_LoggedOutCannotMutate ==
  /\ [](\A s \in DOMAIN sessions :
          sessions[s] = undefined => pending[s] = Idle \/ pending[s].op = "signup")
  /\ [][\A s \in DOMAIN sessions :
          /\ (sessions[s] = undefined /\ MutatingCall(s)) =>
               /\ last'.status = "Unauthenticated"
               /\ UNCHANGED <<users, classrooms, components, tasks, sessions, pending>>
          /\ logout(s) => sessions'[s] = undefined
       ]_vars

\* student 3 logged in on the session that started logged out, changed the
\* first name and logged out; updateProfile called after that was refused
C32_Witness ==
  /\ users[3].firstName = "Bob"
  /\ sessions["out"] = undefined
  /\ last.op = "updateProfile"
  /\ last.status = "Unauthenticated"

\* the put of session s is stale: the stored record holds an entry that the
\* record s is about to put does not
StaleGrades(s) ==
  /\ pending[s] # Idle
  /\ pending[s].op = "postGrade"
  /\ pending[s].table = "Grades"
  /\ \E g \in Elems(components[pending[s].item.id].grades) :
       g \notin Elems(pending[s].item.grades)

StaleStudents(s) ==
  /\ pending[s] # Idle
  /\ pending[s].op = "enroll"
  /\ pending[s].table = "Classrooms"
  /\ \E st \in Elems(classrooms[pending[s].item.id].students) :
       st \notin Elems(pending[s].item.students)

\* C33: the put that ends postGrade (enroll) stores the component (the
\* classroom) as that call read and changed it and the call returns success,
\* whatever was stored in between; so the put of a stale call removes the
\* entry a concurrent successful call stored.
C33_LastWriterWins ==
  [][\A s \in DOMAIN pending :
       /\ (Completes(s, "postGrade") /\ pending[s].table = "Grades") =>
            /\ last'.status = "ok"
            /\ components'[pending[s].item.id] = pending[s].item
            /\ StaleGrades(s) =>
                 Len(components'[pending[s].item.id].grades)
                   <= Len(components[pending[s].item.id].grades)
       /\ Completes(s, "enroll") =>
            /\ last'.status = "ok"
            /\ classrooms'[pending[s].item.id] = pending[s].item
            /\ StaleStudents(s) =>
                 \E st \in Elems(classrooms[pending[s].item.id].students) :
                   st \notin Elems(classrooms'[pending[s].item.id].students)
    ]_vars

\* postGrade for student 3 has returned and its entry is stored while the
\* instructor's other session awaits the put of the component with student
\* 4's entry only; student 3's enroll has returned while student 4's session
\* awaits the put of the classroom without student 3
C33_Witness ==
  /\ StaleGrades("e1b")
  /\ pending["e1b"].item.grades = <<[student |-> 4, score |-> 85, comments |-> "good"]>>
  /\ components[8].grades = <<[student |-> 3, score |-> 85, comments |-> "good"]>>
  /\ StaleStudents("st2")
  /\ pending["st2"].item.students = <<4>>
  /\ 3 \in Elems(classrooms[7].students)

\* C34: every stored e-mail is lower-case, and a lookup by a stored e-mail
\* written in any letter case finds that user
C34_EmailsLowerCase ==
  \A u \in Range(users) :
    /\ u.email = ToLowerCase(u.email)
    /\ \A e \in Emails :
         ToLowerCase(e) = ToLowerCase(u.email) =>
           Project(u, UserFields) \in Users_lookup(FALSE, FALSE, NoId, e)

\* the guardians of student id and the dependents of guardian id, as stored
GuardiansOf(id) ==
  {g \in Range(users) : Has(g, "dependents") /\ id \in Elems(g.dependents)}

UserIds == DOMAIN users \cup {NoId}

\* the statement of C35 for the UserService of src/unnamed/part_000
Users_ListingModes ==
  /\ \A user \in Callers, id \in UserIds :
       /\ Users_listGuardiansAsUser(user, id) =
            IF user.role = STUDENT
            THEN Ok([items |-> {g.id : g \in GuardiansOf(user.id)}])
            ELSE Err("Forbidden")
       /\ Users_listDependentsAsUser(user, id) =
            IF user.role = GUARDIAN
            THEN {Ok([items |-> users[user.id].dependents])}
            ELSE {Err("Forbidden")}
  /\ \A st \in StoredStudents : Users_listGuardians(st.id) = {g.id : g \in GuardiansOf(st.id)}
  /\ \A g \in StoredGuardians : Users_listDependents(g.id) = {Ok([items |-> g.dependents])}

\* the statement of C35 for the UserService of src/users/index.js as its
\* handler exposes it
UsersIndex_ListingModes ==
  /\ \A user \in Callers :
       /\ UsersIndex_listGuardians(user) =
            IF user.role = STUDENT
            THEN Ok([items |-> {Project(g, UserFields) : g \in GuardiansOf(user.id)}])
            ELSE Err("Forbidden")
       /\ IF user.role = GUARDIAN
          THEN /\ UsersIndex_handler_listDependents(user).ok
               /\ UsersIndex_handler_listDependents(user).value.items
                    = users[user.id].dependents
          ELSE UsersIndex_handler_listDependents(user) = Err("Forbidden")
  /\ \A st \in StoredStudents : \A r \in UsersIndex_listGuardiansInternal(st.id) : r.ok
  /\ \A g \in StoredGuardians : \A r \in UsersIndex_listDependents(g.id) : r.ok

\* C35: called by an end-user, listGuardians ignores the supplied id,
\* requires role STUDENT and returns exactly the guardians whose dependents
\* contain the caller; listDependents ignores the supplied id, requires role
\* GUARDIAN and returns the caller's stored dependents; called by another
\* service each serves the explicit id without a role check (both versions
\* of the UserService).
C35_ListingModes == Users_ListingModes /\ UsersIndex_ListingModes

\* the stored dependents of user id, `undefined` when the record has none
StoredDependents(table, id) ==
  IF Has(table[id], "dependents") THEN [items |-> table[id].dependents] ELSE undefined

\* C36: the put of a successful updateProfile that leaves a GUARDIAN a
\* GUARDIAN, and the put of a successful updatePassword, leave the caller's
\* stored dependents as they were; updatePassword changes passwordHash only
\* and updateProfile the supplied field (here firstName) only.
C36_ProfileFrame ==
  [][\A s \in DOMAIN pending :
       LET id == pending[s].item.id
       IN /\ (Completes(s, "updateProfile")
              /\ users[id].role = GUARDIAN /\ users'[id].role = GUARDIAN) =>
               /\ StoredDependents(users', id) = StoredDependents(users, id)
               /\ Without(users'[id], "firstName") = Without(users[id], "firstName")
          /\ Completes(s, "updatePassword") =>
               /\ StoredDependents(users', id) = StoredDependents(users, id)
               /\ Without(users'[id], "passwordHash") = Without(users[id], "passwordHash")
    ]_vars

\* the ids of the tasks that were stored and have been deleted: generated
\* by create, not awaiting create's put, and absent from the table
DeletedTasks ==
  {id \in 10..uuidCount :
     /\ id \notin DOMAIN tasks
     /\ ~\E s \in DOMAIN pending :
          pending[s] # Idle /\ pending[s].op = "Tasks.create" /\ pending[s].item.id = id}

\* session s awaits the put of its copy of task id, read before the delete
StaleTaskPut(s, id) ==
  /\ pending[s] # Idle
  /\ pending[s].op \in {"Tasks.update", "updateCompleteness"}
  /\ pending[s].table = "Tasks"
  /\ pending[s].item.id = id

\* C37 as stated: the task of a completed delete is absent from then on
C37_StaysDeleted ==
  [][/\ \A s \in DOMAIN pending :
          Completes(s, "Tasks.delete") => pending[s].item.id \notin DOMAIN tasks'
     /\ \A id \in DeletedTasks : id \notin DOMAIN tasks'
    ]_vars

\* C37: a completed delete leaves its task absent, and a deleted task stays
\* absent except through the put of an update or updateCompleteness call
\* that read the task before the delete: that put stores the caller's copy
\* and the task is back.
C37_DeletedUntilStalePut ==
  [][/\ \A s \in DOMAIN pending :
          Completes(s, "Tasks.delete") => pending[s].item.id \notin DOMAIN tasks'
     /\ \A id \in DeletedTasks :
          IF \E s \in DOMAIN pending : StaleTaskPut(s, id) /\ pending'[s] = Idle
          THEN id \in DOMAIN tasks'
               /\ \E s \in DOMAIN pending :
                    StaleTaskPut(s, id) /\ tasks'[id] = pending[s].item /\ last'.status = "ok"
          ELSE id \notin DOMAIN tasks'
    ]_vars

\* task 10 has been deleted, the delete was the last call to return, and an
\* update or updateCompleteness that read task 10 awaits its put
C37_Witness ==
  /\ 10 \in DeletedTasks
  /\ last = [op |-> "Tasks.delete", status |-> "ok", hash |-> FALSE]
  /\ \E s \in DOMAIN pending : StaleTaskPut(s, 10)

\* C38: Tasks.list by an end-user GUARDIAN with studentId st returns st's
\* tasks only if st is one of the caller's stored dependents: for any other
\* student the guardian is handed none of that student's student-scoped
\* tasks.
C38_GuardianListsDependentsOnly ==
  \A user \in Callers, st \in Students :
    (user.role = GUARDIAN /\ st \notin Elems(users[user.id].dependents)) =>
      \A task \in Range(tasks) :
        task.student = st =>
          ~(Tasks_list(user, st).ok
              /\ Project(task, TaskFields) \in Tasks_list(user, st).value.items)


====
